---- MODULE Spec2Model ----
(***************************************************************************)
(* Session authority of the task-manager backend (package utils, the       *)
(* opaque-session-id variant): GenerateToken, ValidateToken and            *)
(* CleanupSessions over the package-level map activeSessions guarded by    *)
(* activeSessionsMutex (a sync.RWMutex).                                   *)
(*                                                                         *)
(* Modelling conventions                                                   *)
(*  - Goroutines are the elements of Procs; each runs one call at a time.  *)
(*    Acquiring the mutex, the critical section up to its release, and the *)
(*    clock read of ValidateToken are separate steps.                      *)
(*  - Time is counted in hours; time.Now() reads the variable now.         *)
(*  - A session id is a natural number: EmptyID stands for "", the ids     *)
(*    1..MaxIds for the base64 strings.  crypto/rand is modelled as a      *)
(*    source that never returns the same 32 bytes twice (nextID), and      *)
(*    BogusID for a string that is not a session id.                       *)
(*  - Strings that are parsed (JWT_EXPIRES_IN) are sequences of            *)
(*    one-character strings.                                               *)
(***************************************************************************)
EXTENDS Integers, Sequences, FiniteSets, TLC

\* ---- bounds ----
NumProcs == 2
MaxUser == 2
MaxIds == 2
MaxTime == 3

\* largest DB_RETRY_ATTEMPTS and DB_RETRY_DELAY, and the longest a connection
\* attempt takes, in units of time
MaxRetryAttempts == 3

MaxRetryDelay == 2

MaxOpenTime == 1

\* rows of the tasks table
MaxTasks == 1

Procs == 1..NumProcs
Users == 1..MaxUser
IssuableIDs == 1..MaxIds

\* ---- program constants ----
EmptyID == 0
None == 0
BogusID == MaxIds + 1
DefaultExpiresIn == <<"2", "4", "h">>

ErrNil == ""
ErrRand == "failed to generate random bytes"
ErrDuration == "invalid JWT_EXPIRES_IN value"
ErrEmpty == "empty session ID"
ErrInvalid == "invalid session"
ErrExpired == "session expired"

\* values of the environment variable JWT_EXPIRES_IN the model starts from
EnvValues == { <<>>, <<"1", "h">>, <<"2", "h">>, <<"2">> }

VARIABLES
  now,             \* the wall clock
  env,             \* os.Getenv("JWT_EXPIRES_IN")
  activeSessions,  \* map[string]sessionData
  rwWriter,        \* goroutine holding activeSessionsMutex exclusively, or None
  rwPending,       \* goroutine that has announced its Lock (holds rw.w), or None
  rwReaders,       \* goroutines holding activeSessionsMutex shared
  nextID,          \* the random source: next fresh id
  pc,              \* position of every goroutine
  local,           \* local variables of the call a goroutine is in
  ret,             \* the value returned by the step just taken, if it returned
  issued,          \* history: the record written when an id was first inserted
  expiredReported, \* history: ids for which "session expired" was returned
  frame,           \* the HTTP request a goroutine is serving, if any
  ctx,             \* the gin.Context keys of the request a goroutine is serving
  users,           \* the users table of the record store
  nextUserID,      \* the auto-increment of the users table
  resp,            \* the response written by the step just taken, if any
  tickerC,         \* ticker.C of scheduleSessionCleanup holds a tick
  initdb,          \* the call of database.InitDB: its locals and its result
  tasks            \* the tasks table of the record store

vars == <<now, env, activeSessions, rwWriter, rwPending, rwReaders, nextID, pc, local, ret,
          issued, expiredReported, frame, ctx, users, nextUserID, resp,
          tickerC, initdb, tasks>>

\* ---- time.Time ----
After(t, u) == t > u

\* variant: the duration is dropped
Add_NoDuration(t, d) == t

Add(t, d) == t + d

\* ---- time.ParseDuration, over digits and the unit "h" ----
IsDigit(c) == c \in {"0", "1", "2", "3", "4", "5", "6", "7", "8", "9"}

DigitVal(c) ==
  CASE c = "0" -> 0 [] c = "1" -> 1 [] c = "2" -> 2 [] c = "3" -> 3
    [] c = "4" -> 4 [] c = "5" -> 5 [] c = "6" -> 6 [] c = "7" -> 7
    [] c = "8" -> 8 [] c = "9" -> 9

\* number of leading digits of s
RECURSIVE DigitPrefix(_)
DigitPrefix(s) ==
  IF s = <<>> \/ ~IsDigit(Head(s)) THEN 0 ELSE 1 + DigitPrefix(Tail(s))

\* number of leading unit characters of s (anything that is not a digit)
RECURSIVE UnitPrefix(_)
UnitPrefix(s) ==
  IF s = <<>> \/ IsDigit(Head(s)) THEN 0 ELSE 1 + UnitPrefix(Tail(s))

RECURSIVE LeadingInt(_, _)
LeadingInt(s, acc) ==
  IF s = <<>> THEN acc ELSE LeadingInt(Tail(s), acc * 10 + DigitVal(Head(s)))

\* the unit map, in hours; units below one hour are not representable
UnitKnown(u) == u = <<"h">>

RECURSIVE ParseGroups(_, _)
ParseGroups(s, acc) ==
  IF s = <<>> THEN [ok |-> TRUE, d |-> acc]
  ELSE LET nd == DigitPrefix(s)
           rest == SubSeq(s, nd + 1, Len(s))
           nu == UnitPrefix(rest)
       IN IF nd = 0 THEN [ok |-> FALSE, d |-> 0]
          ELSE IF nu = 0 THEN [ok |-> FALSE, d |-> 0]
          ELSE IF ~UnitKnown(SubSeq(rest, 1, nu)) THEN [ok |-> FALSE, d |-> 0]
          ELSE ParseGroups(SubSeq(rest, nu + 1, Len(rest)),
                           acc + LeadingInt(SubSeq(s, 1, nd), 0))

ParseDuration(s) ==
  LET neg == s # <<>> /\ Head(s) = "-"
      body == IF s # <<>> /\ Head(s) \in {"-", "+"} THEN Tail(s) ELSE s
      r == ParseGroups(body, 0)
  IN IF body = <<"0">> THEN [ok |-> TRUE, d |-> 0]
     ELSE IF body = <<>> THEN [ok |-> FALSE, d |-> 0]
     ELSE IF ~r.ok THEN r
     ELSE [ok |-> TRUE, d |-> IF neg THEN 0 - r.d ELSE r.d]

\* ---- sessionData and the map ----
ZeroSession == [UserID |-> 0, ExpiresAt |-> 0]

Lookup(m, id) ==
  IF id \in DOMAIN m THEN [session |-> m[id], exists |-> TRUE]
  ELSE [session |-> ZeroSession, exists |-> FALSE]

\* variant: the map is replaced by one holding only the new entry
StoreSession_Replace(m, id, data) == [x \in {id} |-> data]

\* variant: an insert refreshes the other sessions of the same user
StoreSession_Refresh(m, id, data) ==
  [x \in (DOMAIN m) \cup {id} |->
     IF x = id \/ m[x].UserID = data.UserID THEN data ELSE m[x]]

\* variant: a new session takes the place of the user's other sessions
StoreSession_OnePerUser(m, id, data) ==
  [x \in {y \in DOMAIN m : m[y].UserID # data.UserID} \cup {id} |->
     IF x = id THEN data ELSE m[x]]

StoreSession(m, id, data) ==
  [x \in (DOMAIN m) \cup {id} |-> IF x = id THEN data ELSE m[x]]

\* variant: the delete is dropped
DeleteSession_Keep(m, id) == m

\* variant: the delete empties the map
DeleteSession_All(m, id) == <<>>

DeleteSession(m, id) == [x \in (DOMAIN m) \ {id} |-> m[x]]

\* variant: the expiry test of the loop is inverted
Sweep_Inverted(m, t) ==
  [x \in {i \in DOMAIN m : After(t, m[i].ExpiresAt)} |-> m[x]]

\* variant: the loop also removes the entries that expire at t
Sweep_AtOrAfter(m, t) == [x \in {i \in DOMAIN m : m[i].ExpiresAt > t} |-> m[x]]

\* the loop of CleanupSessions
Sweep(m, t) == [x \in {i \in DOMAIN m : ~After(t, m[i].ExpiresAt)} |-> m[x]]

\* what a caller can present to ValidateToken: nothing, a string that was never
\* a session id, or an id that GenerateToken has handed out
Credentials == {EmptyID, BogusID} \cup DOMAIN issued

\* ---- sync.RWMutex ----
\* variant: Lock does not wait for the readers
CanLock_IgnoreReaders == rwWriter = None

CanLock == rwWriter = None /\ rwReaders = {}

\* RLock waits while a writer holds the lock or has announced itself
CanRLock == rwWriter = None /\ rwPending = None

\* ---- goroutine bookkeeping ----
NoLocal == [sessionID |-> EmptyID, userID |-> 0, expiresIn |-> 0,
            session |-> ZeroSession, exists |-> FALSE, now |-> 0,
            present |-> FALSE, afterExp |-> FALSE]

NoRet == [proc |-> None, op |-> "none", sessionID |-> EmptyID, userID |-> 0,
          err |-> ErrNil, at |-> 0, present |-> FALSE, afterExp |-> FALSE]

\* ---- HTTP request bookkeeping ----
NoReq == [username |-> <<>>, email |-> <<>>, password |-> ""]

\* what a session function hands back to the handler that called it
NoResult == [sessionID |-> EmptyID, userID |-> 0, err |-> ErrNil]

ResultOf(r) == [sessionID |-> IF r.op = "GenerateToken" /\ r.err = ErrNil
                                THEN r.sessionID ELSE EmptyID,
                userID |-> IF r.op = "ValidateToken" THEN r.userID ELSE 0,
                err |-> r.err]

NoFrame == [kind |-> "none", hdr |-> <<>>, req |-> NoReq, userID |-> 0,
            result |-> NoResult]

NoCtx == <<>>

\* a response: status, message ("error"), token and user of the body; and, for
\* the properties, the header of the request (hdr), the body it was bound to
\* (req), the error of the session function the handler called (err), whether
\* the store answered the handler's last query (dbOK) and whether the stage
\* behind the middleware ran (ran)
NoResp == [proc |-> None, kind |-> "none", status |-> 0, error |-> <<>>,
           token |-> EmptyID, userID |-> 0, hdr |-> <<>>, req |-> NoReq,
           err |-> ErrNil, dbOK |-> TRUE, ran |-> FALSE]

\* InitDB is not running
NoInitDB == [pc |-> "none"]

\* a step inside a call: nothing is returned
Goto(p, label, l) ==
  /\ pc' = [pc EXCEPT ![p] = label]
  /\ local' = [local EXCEPT ![p] = l]
  /\ ret' = NoRet
  /\ resp' = NoResp
  /\ UNCHANGED <<frame, ctx, users, nextUserID, tickerC, initdb, tasks>>

\* the call of p returns r to its caller: to the code outside the model when
\* the goroutine serves no request, to the handler it serves otherwise
Return(p, r) ==
  /\ pc' = [pc EXCEPT ![p] = IF frame[p].kind = "none" THEN "idle" ELSE "resume"]
  /\ local' = [local EXCEPT ![p] = NoLocal]
  /\ ret' = [r EXCEPT !.proc = p]
  /\ frame' = IF frame[p].kind = "none" THEN frame
              ELSE [frame EXCEPT ![p].result = ResultOf(r)]
  /\ resp' = NoResp
  /\ UNCHANGED <<ctx, users, nextUserID, tickerC, initdb, tasks>>

\* Lock: the goroutine first takes the writers' mutex and announces itself,
\* which holds back new readers, then waits until the readers have left
Lock(p, next) ==
  \/ /\ rwPending = None
     /\ rwPending' = p
     /\ UNCHANGED rwWriter
     /\ Goto(p, pc[p], local[p])
  \/ /\ rwPending = p
     /\ CanLock
     /\ rwWriter' = p
     /\ UNCHANGED rwPending
     /\ Goto(p, next, local[p])

Unlock(p) ==
  /\ rwWriter' = IF rwWriter = p THEN None ELSE rwWriter
  /\ rwPending' = IF rwPending = p THEN None ELSE rwPending

InitCore ==
  /\ now = 0
  /\ activeSessions = <<>>
  /\ rwWriter = None
  /\ rwPending = None
  /\ rwReaders = {}
  /\ nextID = 1
  /\ pc = [p \in Procs |-> "idle"]
  /\ local = [p \in Procs |-> NoLocal]
  /\ ret = NoRet
  /\ issued = <<>>
  /\ expiredReported = {}
  /\ frame = [p \in Procs |-> NoFrame]
  /\ ctx = [p \in Procs |-> NoCtx]
  /\ resp = NoResp
  /\ tickerC = FALSE
  /\ initdb = NoInitDB
  /\ tasks = <<>>

Init ==
  /\ InitCore
  /\ env \in EnvValues
  /\ users = <<>>
  /\ nextUserID = 1

\* the clock advances
Tick ==
  /\ now < MaxTime
  /\ now' = now + 1
  /\ ret' = NoRet
  /\ resp' = NoResp
  /\ UNCHANGED <<env, activeSessions, rwWriter, rwPending, rwReaders, nextID, pc, local,
                 issued, expiredReported, frame, ctx, users, nextUserID,
                 tickerC, initdb, tasks>>

\* ---- GenerateToken ----
\* lines 26-45: random id, JWT_EXPIRES_IN, ParseDuration
GenerateTokenEnter(p, userID) ==
  /\ nextID <= MaxIds
  /\ \E randOK \in BOOLEAN :
       IF ~randOK
       THEN /\ Return(p, [NoRet EXCEPT !.op = "GenerateToken", !.userID = userID,
                                       !.err = ErrRand, !.at = now])
            /\ UNCHANGED nextID
       ELSE LET expiresInStr == IF env = <<>> THEN DefaultExpiresIn ELSE env
                d == ParseDuration(expiresInStr)
            IN /\ nextID' = nextID + 1
               /\ IF ~d.ok
                  THEN Return(p, [NoRet EXCEPT !.op = "GenerateToken",
                                               !.userID = userID,
                                               !.err = ErrDuration, !.at = now])
                  ELSE Goto(p, "gen_lock",
                            [NoLocal EXCEPT !.sessionID = nextID,
                                            !.userID = userID,
                                            !.expiresIn = d.d])
  /\ UNCHANGED <<now, env, activeSessions, rwWriter, rwPending, rwReaders, issued,
                 expiredReported>>

\* GenerateToken called from outside the handlers
GenerateTokenCall(p, userID) ==
  /\ pc[p] = "idle"
  /\ GenerateTokenEnter(p, userID)

\* line 48
GenLock(p) ==
  /\ pc[p] = "gen_lock"
  /\ Lock(p, "gen_store")
  /\ UNCHANGED <<now, env, activeSessions, rwReaders, nextID, issued,
                 expiredReported>>

\* variant: the return without Unlock
GenStore_NoUnlock(p) ==
  /\ pc[p] = "gen_store"
  /\ LET data == [UserID |-> local[p].userID,
                  ExpiresAt |-> Add(now, local[p].expiresIn)]
         id == local[p].sessionID
     IN /\ activeSessions' = StoreSession(activeSessions, id, data)
        /\ issued' = [x \in (DOMAIN issued) \cup {id} |->
                        IF x \in DOMAIN issued THEN issued[x]
                        ELSE [UserID |-> local[p].userID,
                              ExpiresAt |-> now + local[p].expiresIn]]
  /\ Return(p, [NoRet EXCEPT !.op = "GenerateToken",
                             !.sessionID = local[p].sessionID,
                             !.userID = local[p].userID, !.at = now])
  /\ UNCHANGED <<now, env, rwWriter, rwPending, rwReaders, nextID, expiredReported>>

\* lines 49-55: the insert, Unlock and the return
GenStore(p) ==
  /\ pc[p] = "gen_store"
  /\ LET data == [UserID |-> local[p].userID,
                  ExpiresAt |-> Add(now, local[p].expiresIn)]
         id == local[p].sessionID
     IN /\ activeSessions' = StoreSession(activeSessions, id, data)
        /\ issued' = [x \in (DOMAIN issued) \cup {id} |->
                        IF x \in DOMAIN issued THEN issued[x]
                        ELSE [UserID |-> local[p].userID,
                              ExpiresAt |-> now + local[p].expiresIn]]
  /\ Unlock(p)
  /\ Return(p, [NoRet EXCEPT !.op = "GenerateToken",
                             !.sessionID = local[p].sessionID,
                             !.userID = local[p].userID, !.at = now])
  /\ UNCHANGED <<now, env, rwReaders, nextID, expiredReported>>

\* ---- ValidateToken ----
\* variant: the empty id is looked up like any other
ValidateTokenCall_NoEmptyCheck(p, sessionID) ==
  /\ pc[p] = "idle"
  /\ Goto(p, "val_rlock",
          [NoLocal EXCEPT !.sessionID = sessionID,
                          !.afterExp = sessionID \in expiredReported])
  /\ UNCHANGED <<now, env, activeSessions, rwWriter, rwPending, rwReaders, nextID, issued,
                 expiredReported>>

\* lines 59-62
ValidateTokenEnter(p, sessionID) ==
  /\ IF sessionID = EmptyID
     THEN Return(p, [NoRet EXCEPT !.op = "ValidateToken", !.err = ErrEmpty,
                                  !.at = now])
     ELSE Goto(p, "val_rlock",
               [NoLocal EXCEPT !.sessionID = sessionID,
                               !.afterExp = sessionID \in expiredReported])
  /\ UNCHANGED <<now, env, activeSessions, rwWriter, rwPending, rwReaders, nextID, issued,
                 expiredReported>>

\* ValidateToken called from outside the handlers
ValidateTokenCall(p, sessionID) ==
  /\ pc[p] = "idle"
  /\ ValidateTokenEnter(p, sessionID)

\* line 64
ValRLock(p) ==
  /\ pc[p] = "val_rlock"
  /\ CanRLock
  /\ rwReaders' = rwReaders \cup {p}
  /\ Goto(p, "val_read", local[p])
  /\ UNCHANGED <<now, env, activeSessions, rwWriter, rwPending, nextID, issued,
                 expiredReported>>

\* lines 65-66: the lookup and RUnlock
ValRead(p) ==
  /\ pc[p] = "val_read"
  /\ LET r == Lookup(activeSessions, local[p].sessionID)
     IN Goto(p, "val_check",
             [local[p] EXCEPT !.session = r.session, !.exists = r.exists,
                              !.present =
                                local[p].sessionID \in DOMAIN activeSessions])
  /\ rwReaders' = rwReaders \ {p}
  /\ UNCHANGED <<now, env, activeSessions, rwWriter, rwPending, nextID, issued,
                 expiredReported>>

\* variant: a successful validation pushes the expiry back
ValCheck_Sliding(p) ==
  /\ pc[p] = "val_check"
  /\ LET base == [NoRet EXCEPT !.op = "ValidateToken",
                               !.sessionID = local[p].sessionID,
                               !.at = now,
                               !.present = local[p].present,
                               !.afterExp = local[p].afterExp]
         id == local[p].sessionID
     IN IF ~local[p].exists
        THEN /\ Return(p, [base EXCEPT !.err = ErrInvalid])
             /\ UNCHANGED activeSessions
        ELSE IF After(now, local[p].session.ExpiresAt)
        THEN /\ Goto(p, "val_lock", [local[p] EXCEPT !.now = now])
             /\ UNCHANGED activeSessions
        ELSE /\ Return(p, [base EXCEPT !.userID = local[p].session.UserID])
             /\ activeSessions' =
                  IF id \in DOMAIN activeSessions
                  THEN [activeSessions EXCEPT ![id].ExpiresAt = now + 1]
                  ELSE activeSessions
  /\ UNCHANGED <<now, env, rwWriter, rwPending, rwReaders, nextID, issued, expiredReported>>

\* lines 68-73 and 82
ValCheck(p) ==
  /\ pc[p] = "val_check"
  /\ LET base == [NoRet EXCEPT !.op = "ValidateToken",
                               !.sessionID = local[p].sessionID,
                               !.at = now,
                               !.present = local[p].present,
                               !.afterExp = local[p].afterExp]
     IN IF ~local[p].exists
        THEN Return(p, [base EXCEPT !.err = ErrInvalid])
        ELSE IF After(now, local[p].session.ExpiresAt)
        THEN Goto(p, "val_lock", [local[p] EXCEPT !.now = now])
        ELSE Return(p, [base EXCEPT !.userID = local[p].session.UserID])
  /\ UNCHANGED <<now, env, activeSessions, rwWriter, rwPending, rwReaders, nextID, issued,
                 expiredReported>>

\* line 75
ValLock(p) ==
  /\ pc[p] = "val_lock"
  /\ Lock(p, "val_delete")
  /\ UNCHANGED <<now, env, activeSessions, rwReaders, nextID, issued,
                 expiredReported>>

\* lines 76-79: the delete, Unlock and the return
ValDelete(p) ==
  /\ pc[p] = "val_delete"
  /\ activeSessions' = DeleteSession(activeSessions, local[p].sessionID)
  /\ Unlock(p)
  /\ expiredReported' = expiredReported \cup {local[p].sessionID}
  /\ Return(p, [NoRet EXCEPT !.op = "ValidateToken",
                             !.sessionID = local[p].sessionID,
                             !.err = ErrExpired,
                             !.at = local[p].now,
                             !.present = local[p].present,
                             !.afterExp = local[p].afterExp])
  /\ UNCHANGED <<now, env, rwReaders, nextID, issued>>

\* ---- CleanupSessions ----
\* line 87
CleanupSessionsCall(p) ==
  /\ pc[p] = "idle"
  /\ Goto(p, "cl_lock", [NoLocal EXCEPT !.now = now])
  /\ UNCHANGED <<now, env, activeSessions, rwWriter, rwPending, rwReaders, nextID, issued,
                 expiredReported>>

\* line 89
CleanLock(p) ==
  /\ pc[p] = "cl_lock"
  /\ Lock(p, "cl_sweep")
  /\ UNCHANGED <<now, env, activeSessions, rwReaders, nextID, issued,
                 expiredReported>>

\* lines 90-97: the loop, the deferred Unlock and the return
CleanSweep(p) ==
  /\ pc[p] = "cl_sweep"
  /\ activeSessions' = Sweep(activeSessions, local[p].now)
  /\ Unlock(p)
  /\ Return(p, [NoRet EXCEPT !.op = "CleanupSessions", !.at = local[p].now])
  /\ UNCHANGED <<now, env, rwReaders, nextID, issued, expiredReported>>

\* ---- strings of the Authorization header ----
\* a header value is a sequence of tokens: whitespace, the word Bearer, or a
\* run of characters that is (or is not) a session id
SP == [t |-> "sp", id |-> EmptyID]

BEARER == [t |-> "bearer", id |-> EmptyID]

IdTok(k) == [t |-> "id", id |-> k]

RECURSIVE TrimLeft(_)
TrimLeft(h) == IF h # <<>> /\ Head(h) = SP THEN TrimLeft(Tail(h)) ELSE h

RECURSIVE TrimRight(_)
TrimRight(h) ==
  IF h # <<>> /\ h[Len(h)] = SP THEN TrimRight(SubSeq(h, 1, Len(h) - 1)) ELSE h

\* variant: the value as received
TrimSpace_None(h) == h

\* strings.TrimSpace
TrimSpace(h) == TrimRight(TrimLeft(h))

\* the key of activeSessions that a string is: a string of several tokens is
\* no session id
SessionKey(h) ==
  IF h = <<>> THEN EmptyID
  ELSE IF Len(h) = 1 /\ h[1].t = "id" THEN h[1].id
  ELSE BogusID

\* the header values a client sends
Headers ==
  {<<>>, <<SP>>, <<IdTok(BogusID)>>} \cup
  UNION {{<<IdTok(k)>>, <<SP, IdTok(k), SP>>, <<BEARER, SP, IdTok(k)>>} :
           k \in DOMAIN issued}

\* ---- the record store: users ----
UserName(i) == <<"user", i>>

EmailOf(i) == <<"mail", i>>

Usernames == {UserName(i) : i \in Users}

Emails == {EmailOf(i) : i \in Users}

Passwords == {"pw1", "pw2"}

NoRow == [ID |-> 0, Username |-> <<>>, Email |-> <<>>, Password |-> <<>>,
          Deleted |-> FALSE]

\* bcrypt.GenerateFromPassword (BeforeSave) and CompareHashAndPassword
HashPassword(pw) == <<"bcrypt", pw>>

\* variant: every password is taken for the right one
CheckPassword_Always(row, pw) == TRUE

CheckPassword(row, pw) == row.Password = HashPassword(pw)

\* Where(col = v).First and First(&user, id): soft-deleted rows are not seen
LiveRows == {i \in DOMAIN users : ~users[i].Deleted}

ByUsername(name) == {i \in LiveRows : users[i].Username = name}

ByEmail(email) == {i \in LiveRows : users[i].Email = email}

\* the unique indexes cover every row, soft-deleted or not
UniqueViolation(name, email) ==
  \E i \in DOMAIN users : users[i].Username = name \/ users[i].Email = email

RegisterRequests ==
  {[username |-> u, email |-> e, password |-> "pw1"] :
     u \in Usernames \cup {<<>>}, e \in Emails}

LoginRequests ==
  {[username |-> <<>>, email |-> e, password |-> w] :
     e \in Emails \cup {<<>>}, w \in Passwords}

\* ShouldBindJSON: the required fields
BindRegister(req) ==
  req.username # <<>> /\ req.email # <<>> /\ req.password # ""

BindLogin(req) == req.email # <<>> /\ req.password # ""

\* ---- gin.Context ----
CtxSet(c, key, val) ==
  [k \in (DOMAIN c) \cup {key} |-> IF k = key THEN val ELSE c[k]]

\* variant: one slot for all requests
GetUserID_Global(c) ==
  LET holders == {q \in Procs : "userID" \in DOMAIN ctx[q]}
  IN IF holders = {} THEN [userID |-> 0, ok |-> FALSE, panic |-> FALSE]
     ELSE [userID |-> ctx[CHOOSE q \in holders : TRUE]["userID"].val,
           ok |-> TRUE, panic |-> FALSE]

\* lines 63-69 of the middleware
GetUserID(c) ==
  IF "userID" \notin DOMAIN c THEN [userID |-> 0, ok |-> FALSE, panic |-> FALSE]
  ELSE IF c["userID"].type # "uint"
       THEN [userID |-> 0, ok |-> FALSE, panic |-> TRUE]
       ELSE [userID |-> c["userID"].val, ok |-> TRUE, panic |-> FALSE]

\* lines 72-78 of the middleware: the assertion user.(*models.User)
GetUser(c) ==
  IF "user" \notin DOMAIN c THEN [user |-> NoRow, ok |-> FALSE, panic |-> FALSE]
  ELSE IF c["user"].type # "*models.User"
       THEN [user |-> NoRow, ok |-> FALSE, panic |-> TRUE]
       ELSE [user |-> c["user"].val, ok |-> TRUE, panic |-> FALSE]

sessionVars == <<now, env, activeSessions, rwWriter, rwPending, rwReaders, nextID, issued,
                 expiredReported, tickerC>>

\* a step of a handler that neither returns nor responds
Step(p, label, f) ==
  /\ pc' = [pc EXCEPT ![p] = label]
  /\ frame' = [frame EXCEPT ![p] = f]
  /\ ret' = NoRet
  /\ resp' = NoResp
  /\ UNCHANGED local

\* c.JSON (and c.Abort in the middleware): the request is over
Respond(p, r) ==
  /\ pc' = [pc EXCEPT ![p] = "idle"]
  /\ frame' = [frame EXCEPT ![p] = NoFrame]
  /\ ctx' = [ctx EXCEPT ![p] = NoCtx]
  /\ ret' = NoRet
  /\ resp' = [r EXCEPT !.proc = p, !.hdr = frame[p].hdr,
                       !.req = frame[p].req, !.err = frame[p].result.err]
  /\ UNCHANGED local

\* ---- AuthMiddleware ----
\* variant: no test of the header
AuthMiddlewareCall_NoHeaderCheck(p, hdr) ==
  /\ pc[p] = "idle"
  /\ frame[p].kind = "none"
  /\ Step(p, "gate_validate", [NoFrame EXCEPT !.kind = "protected", !.hdr = hdr])
  /\ UNCHANGED <<ctx, sessionVars, initdb, tasks, users, nextUserID>>

\* lines 15-26: the header
AuthMiddlewareCall(p, hdr) ==
  /\ pc[p] = "idle"
  /\ frame[p].kind = "none"
  /\ IF hdr = <<>>
     THEN Respond(p, [NoResp EXCEPT !.kind = "protected", !.status = 401,
                        !.error = <<"Authorization header is required">>])
     ELSE /\ Step(p, "gate_validate",
                  [NoFrame EXCEPT !.kind = "protected", !.hdr = hdr])
          /\ UNCHANGED ctx
  /\ UNCHANGED <<sessionVars, initdb, tasks, users, nextUserID>>

\* lines 28-33: TrimSpace and the call of ValidateToken
GateValidate(p) ==
  /\ pc[p] = "gate_validate"
  /\ ValidateTokenEnter(p, SessionKey(TrimSpace(frame[p].hdr)))

\* lines 34-40: the error of ValidateToken
GateResume(p) ==
  /\ pc[p] = "resume"
  /\ frame[p].kind = "protected"
  /\ IF frame[p].result.err # ErrNil
     THEN Respond(p, [NoResp EXCEPT !.kind = "protected", !.status = 401,
                        !.error = <<"Invalid session: ", frame[p].result.err>>])
     ELSE /\ Step(p, "gate_user",
                  [frame[p] EXCEPT !.userID = frame[p].result.userID])
          /\ UNCHANGED ctx
  /\ UNCHANGED <<sessionVars, initdb, tasks, users, nextUserID>>

\* variant: the result of the query is not tested
GateUser_NoLookupCheck(p) ==
  /\ pc[p] = "gate_user"
  /\ Step(p, "handler", frame[p])
  /\ ctx' = [ctx EXCEPT ![p] =
       CtxSet(CtxSet(ctx[p], "userID",
                     [type |-> "uint", val |-> frame[p].userID]),
              "user",
              [type |-> "models.User", val |-> users[frame[p].userID]])]
  /\ UNCHANGED <<sessionVars, initdb, tasks, users, nextUserID>>

\* lines 42-58: the user row, c.Set and c.Next
GateUser(p) ==
  /\ pc[p] = "gate_user"
  /\ \E dbOK \in BOOLEAN :
       IF ~dbOK \/ frame[p].userID \notin LiveRows
       THEN Respond(p, [NoResp EXCEPT !.kind = "protected", !.status = 401,
                          !.error = <<"User not found or invalid session">>,
                          !.dbOK = dbOK])
       ELSE /\ Step(p, "handler", frame[p])
            /\ ctx' = [ctx EXCEPT ![p] =
                 CtxSet(CtxSet(ctx[p], "userID",
                               [type |-> "uint", val |-> frame[p].userID]),
                        "user",
                        [type |-> "models.User",
                         val |-> users[frame[p].userID]])]
  /\ UNCHANGED <<sessionVars, initdb, tasks, users, nextUserID>>

\* ---- downstream of the middleware ----
\* a task handler: GetUserID and the answer (task_handler.go lines 53-60)
Handler(p) ==
  /\ pc[p] = "handler"
  /\ LET u == GetUserID(ctx[p])
     IN IF u.panic
        THEN Respond(p, [NoResp EXCEPT !.kind = "protected", !.status = 500,
                           !.ran = TRUE])
        ELSE IF ~u.ok
        THEN Respond(p, [NoResp EXCEPT !.kind = "protected", !.status = 401,
                           !.error = <<"Unauthorized">>, !.ran = TRUE])
        ELSE Respond(p, [NoResp EXCEPT !.kind = "protected", !.status = 200,
                           !.userID = u.userID, !.ran = TRUE])
  /\ UNCHANGED <<sessionVars, initdb, tasks, users, nextUserID>>

\* a downstream stage that reads the user with GetUser; a panic is turned into
\* a 500 by gin.Recovery (main.go line 50)
HandlerGetUser(p) ==
  /\ pc[p] = "handler"
  /\ LET g == GetUser(ctx[p])
     IN IF g.panic
        THEN Respond(p, [NoResp EXCEPT !.kind = "protected", !.status = 500,
                           !.error = <<"panic">>, !.ran = TRUE])
        ELSE IF ~g.ok
        THEN Respond(p, [NoResp EXCEPT !.kind = "protected", !.status = 401,
                           !.error = <<"Unauthorized">>, !.ran = TRUE])
        ELSE Respond(p, [NoResp EXCEPT !.kind = "protected", !.status = 200,
                           !.userID = g.user.ID, !.ran = TRUE])
  /\ UNCHANGED <<sessionVars, initdb, tasks, users, nextUserID>>

\* ---- Register ----
\* lines 34-41
RegisterCall(p, req) ==
  /\ pc[p] = "idle"
  /\ frame[p].kind = "none"
  /\ IF ~BindRegister(req)
     THEN Respond(p, [NoResp EXCEPT !.kind = "register", !.status = 400,
                        !.error = <<"Invalid request data: ">>])
     ELSE /\ Step(p, "reg_username",
                  [NoFrame EXCEPT !.kind = "register", !.req = req])
          /\ UNCHANGED ctx
  /\ UNCHANGED <<sessionVars, initdb, tasks, users, nextUserID>>

\* lines 43-56
RegUsername(p) ==
  /\ pc[p] = "reg_username"
  /\ \E dbOK \in BOOLEAN :
       IF ~dbOK
       THEN Respond(p, [NoResp EXCEPT !.kind = "register", !.status = 500,
                          !.error = <<"Database error: ">>, !.dbOK = FALSE])
       ELSE IF ByUsername(frame[p].req.username) # {}
       THEN Respond(p, [NoResp EXCEPT !.kind = "register", !.status = 409,
                          !.error = <<"Username already exists">>])
       ELSE Step(p, "reg_email", frame[p]) /\ UNCHANGED ctx
  /\ UNCHANGED <<sessionVars, initdb, tasks, users, nextUserID>>

\* lines 58-70
RegEmail(p) ==
  /\ pc[p] = "reg_email"
  /\ \E dbOK \in BOOLEAN :
       IF ~dbOK
       THEN Respond(p, [NoResp EXCEPT !.kind = "register", !.status = 500,
                          !.error = <<"Database error: ">>, !.dbOK = FALSE])
       ELSE IF ByEmail(frame[p].req.email) # {}
       THEN Respond(p, [NoResp EXCEPT !.kind = "register", !.status = 409,
                          !.error = <<"Email already exists">>])
       ELSE Step(p, "reg_create", frame[p]) /\ UNCHANGED ctx
  /\ UNCHANGED <<sessionVars, initdb, tasks, users, nextUserID>>

\* variant: the error of Create is not tested
RegCreate_IgnoreError(p) ==
  /\ pc[p] = "reg_create"
  /\ nextUserID <= MaxUser
  /\ \E dbOK \in BOOLEAN :
       IF ~dbOK \/ UniqueViolation(frame[p].req.username, frame[p].req.email)
       THEN /\ Step(p, "reg_token", frame[p])
            /\ UNCHANGED <<ctx, users, nextUserID>>
       ELSE /\ users' = [i \in (DOMAIN users) \cup {nextUserID} |->
                           IF i \in DOMAIN users THEN users[i]
                           ELSE [ID |-> nextUserID,
                                 Username |-> frame[p].req.username,
                                 Email |-> frame[p].req.email,
                                 Password |-> HashPassword(frame[p].req.password),
                                 Deleted |-> FALSE]]
            /\ nextUserID' = nextUserID + 1
            /\ Step(p, "reg_token", [frame[p] EXCEPT !.userID = nextUserID])
            /\ UNCHANGED ctx
  /\ UNCHANGED <<sessionVars, initdb, tasks>>

\* lines 72-85: Create, with the BeforeSave hook and the unique indexes
RegCreate(p) ==
  /\ pc[p] = "reg_create"
  /\ nextUserID <= MaxUser
  /\ \E dbOK \in BOOLEAN :
       IF ~dbOK \/ UniqueViolation(frame[p].req.username, frame[p].req.email)
       THEN /\ Respond(p, [NoResp EXCEPT !.kind = "register", !.status = 500,
                             !.error = <<"Failed to create user: ">>,
                             !.dbOK = dbOK])
            /\ UNCHANGED <<users, nextUserID>>
       ELSE /\ users' = [i \in (DOMAIN users) \cup {nextUserID} |->
                           IF i \in DOMAIN users THEN users[i]
                           ELSE [ID |-> nextUserID,
                                 Username |-> frame[p].req.username,
                                 Email |-> frame[p].req.email,
                                 Password |-> HashPassword(frame[p].req.password),
                                 Deleted |-> FALSE]]
            /\ nextUserID' = nextUserID + 1
            /\ Step(p, "reg_token", [frame[p] EXCEPT !.userID = nextUserID])
            /\ UNCHANGED ctx
  /\ UNCHANGED <<sessionVars, initdb, tasks>>

\* line 88: the call of GenerateToken
RegToken(p) ==
  /\ pc[p] = "reg_token"
  /\ GenerateTokenEnter(p, frame[p].userID)

\* variant: the error of GenerateToken is not tested
RegResume_IgnoreError(p) ==
  /\ pc[p] = "resume"
  /\ frame[p].kind = "register"
  /\ Respond(p, [NoResp EXCEPT !.kind = "register", !.status = 201,
                    !.token = frame[p].result.sessionID,
                    !.userID = frame[p].userID])
  /\ UNCHANGED <<sessionVars, initdb, tasks, users, nextUserID>>

\* lines 89-100
RegResume(p) ==
  /\ pc[p] = "resume"
  /\ frame[p].kind = "register"
  /\ IF frame[p].result.err # ErrNil
     THEN Respond(p, [NoResp EXCEPT !.kind = "register", !.status = 500,
                        !.error = <<"Failed to generate session: ",
                                    frame[p].result.err>>])
     ELSE Respond(p, [NoResp EXCEPT !.kind = "register", !.status = 201,
                        !.token = frame[p].result.sessionID,
                        !.userID = frame[p].userID])
  /\ UNCHANGED <<sessionVars, initdb, tasks, users, nextUserID>>

\* ---- Login ----
\* lines 104-111
LoginCall(p, req) ==
  /\ pc[p] = "idle"
  /\ frame[p].kind = "none"
  /\ IF ~BindLogin(req)
     THEN Respond(p, [NoResp EXCEPT !.kind = "login", !.status = 400,
                        !.error = <<"Invalid request data: ">>])
     ELSE /\ Step(p, "login_find",
                  [NoFrame EXCEPT !.kind = "login", !.req = req])
          /\ UNCHANGED ctx
  /\ UNCHANGED <<sessionVars, initdb, tasks, users, nextUserID>>

\* lines 113-129: the row by email, CheckPassword
LoginFind(p) ==
  /\ pc[p] = "login_find"
  /\ \E dbOK \in BOOLEAN :
       LET found == ByEmail(frame[p].req.email)
       IN IF ~dbOK \/ found = {}
          THEN Respond(p, [NoResp EXCEPT !.kind = "login", !.status = 401,
                             !.error = <<"Invalid email or password">>,
                             !.dbOK = dbOK])
          ELSE LET row == users[CHOOSE i \in found : TRUE]
               IN IF ~CheckPassword(row, frame[p].req.password)
                  THEN Respond(p, [NoResp EXCEPT !.kind = "login",
                                     !.status = 401,
                                     !.error = <<"Invalid email or password">>])
                  ELSE /\ Step(p, "login_token",
                               [frame[p] EXCEPT !.userID = row.ID])
                       /\ UNCHANGED ctx
  /\ UNCHANGED <<sessionVars, initdb, tasks, users, nextUserID>>

\* line 132: the call of GenerateToken
LoginToken(p) ==
  /\ pc[p] = "login_token"
  /\ GenerateTokenEnter(p, frame[p].userID)

\* lines 133-144
LoginResume(p) ==
  /\ pc[p] = "resume"
  /\ frame[p].kind = "login"
  /\ IF frame[p].result.err # ErrNil
     THEN Respond(p, [NoResp EXCEPT !.kind = "login", !.status = 500,
                        !.error = <<"Failed to generate session: ",
                                    frame[p].result.err>>])
     ELSE Respond(p, [NoResp EXCEPT !.kind = "login", !.status = 200,
                        !.token = frame[p].result.sessionID,
                        !.userID = frame[p].userID])
  /\ UNCHANGED <<sessionVars, initdb, tasks, users, nextUserID>>

\* ---- the record store outside the program ----
\* a user row is soft-deleted
DbDeleteUser(u) ==
  /\ u \in LiveRows
  /\ users' = [users EXCEPT ![u].Deleted = TRUE]
  /\ ret' = NoRet
  /\ resp' = NoResp
  /\ UNCHANGED <<sessionVars, initdb, tasks, pc, local, frame, ctx, nextUserID>>

Next ==
  \/ Tick
  \/ \E p \in Procs, u \in Users : GenerateTokenCall(p, u)
  \/ \E p \in Procs : GenLock(p)
  \/ \E p \in Procs : GenStore(p)
  \/ \E p \in Procs, s \in Credentials : ValidateTokenCall(p, s)
  \/ \E p \in Procs : ValRLock(p)
  \/ \E p \in Procs : ValRead(p)
  \/ \E p \in Procs : ValCheck(p)
  \/ \E p \in Procs : ValLock(p)
  \/ \E p \in Procs : ValDelete(p)
  \/ \E p \in Procs : CleanupSessionsCall(p)
  \/ \E p \in Procs : CleanLock(p)
  \/ \E p \in Procs : CleanSweep(p)

Spec == Init /\ [][Next]_vars

\* the Go scheduler runs every runnable goroutine, and sync.RWMutex hands the
\* lock to a goroutine that keeps waiting for it: a pending Lock holds back
\* new readers, and Unlock wakes the readers that queued behind the writer
LockStep(p) == GenLock(p) \/ ValRLock(p) \/ ValLock(p) \/ CleanLock(p)

RunStep(p) ==
  GenStore(p) \/ ValRead(p) \/ ValCheck(p) \/ ValDelete(p) \/ CleanSweep(p)

Fairness == \A p \in Procs : SF_vars(LockStep(p)) /\ WF_vars(RunStep(p))

\* the server configured with a session TTL of one hour
FairInit == Init /\ env = <<"1", "h">>

FairSpec == FairInit /\ [][Next]_vars /\ Fairness

\* ---- the server process: the periodic cleanup ----
\* the goroutine started by "go scheduleSessionCleanup()"; the others serve
\* requests
Sweeper == NumProcs

Servers == Procs \ {Sweeper}

\* variant: a timer instead of a ticker, which delivers once
TickerFire_Once ==
  /\ now < MaxTime
  /\ now' = now + 1
  /\ tickerC' = IF now = 0 THEN TRUE ELSE tickerC
  /\ ret' = NoRet
  /\ resp' = NoResp
  /\ UNCHANGED <<env, activeSessions, rwWriter, rwPending, rwReaders, nextID,
                 pc, local, issued, expiredReported, frame, ctx, users,
                 nextUserID, initdb, tasks>>

\* an hour passes: time.NewTicker(1 * time.Hour) delivers on ticker.C, whose
\* buffer holds one tick; a tick that finds the buffer full is dropped
TickerFire ==
  /\ now < MaxTime
  /\ now' = now + 1
  /\ tickerC' = TRUE
  /\ ret' = NoRet
  /\ resp' = NoResp
  /\ UNCHANGED <<env, activeSessions, rwWriter, rwPending, rwReaders, nextID,
                 pc, local, issued, expiredReported, frame, ctx, users,
                 nextUserID, initdb, tasks>>

\* "for range ticker.C": the loop takes the tick and calls CleanupSessions,
\* which reads the clock
scheduleSessionCleanup ==
  /\ pc[Sweeper] = "idle"
  /\ tickerC
  /\ tickerC' = FALSE
  /\ pc' = [pc EXCEPT ![Sweeper] = "cl_lock"]
  /\ local' = [local EXCEPT ![Sweeper] = [NoLocal EXCEPT !.now = now]]
  /\ ret' = NoRet
  /\ resp' = NoResp
  /\ UNCHANGED <<now, env, activeSessions, rwWriter, rwPending, rwReaders,
                 nextID, issued, expiredReported, frame, ctx, users,
                 nextUserID, initdb, tasks>>

\* the session table in the running server: requests issue and present ids,
\* the cleanup goroutine sweeps on every tick
SweepNext ==
  \/ TickerFire
  \/ scheduleSessionCleanup
  \/ CleanLock(Sweeper)
  \/ CleanSweep(Sweeper)
  \/ \E p \in Servers, u \in Users : GenerateTokenCall(p, u)
  \/ \E p \in Servers : GenLock(p)
  \/ \E p \in Servers : GenStore(p)
  \/ \E p \in Servers, s \in Credentials : ValidateTokenCall(p, s)
  \/ \E p \in Servers : ValRLock(p)
  \/ \E p \in Servers : ValRead(p)
  \/ \E p \in Servers : ValCheck(p)
  \/ \E p \in Servers : ValLock(p)
  \/ \E p \in Servers : ValDelete(p)

\* the loop of scheduleSessionCleanup never ends and the goroutine is always
\* scheduled: a tick in the channel is taken
SweepSpec ==
  FairInit /\ [][SweepNext]_vars /\ Fairness /\ WF_vars(scheduleSessionCleanup)

\* ---- database.InitDB ----
ErrMaxRetriesReached == "max connection retries reached"

DeadlineExceeded == "context deadline exceeded"

\* an error value: its text before the wrapped error, and the error it wraps
\* with %w (none for %v)
NilErr == [msg |-> "", wraps |-> ""]

OpenErr == [msg |-> "dial error", wraps |-> ""]

\* lines 116 and 131-141: the configuration is loaded, the context with
\* the overall timeout created, the loop not yet entered
InitDBEntry(attempts, delay, socket) ==
  [pc |-> "loop", RetryAttempts |-> attempts, RetryDelay |-> delay,
   UseSocket |-> socket, deadline |-> attempts * delay, attempt |-> 0,
   elapsed |-> 0, db |-> "nil", err |-> NilErr, DB |-> "nil",
   primary |-> 0, fallback |-> 0,
   result |-> [db |-> "nil", err |-> NilErr]]

\* ctx.Err() != nil: the deadline has passed. Durations are counted in whole
\* units rounded down, every step taking some time, so the deadline has
\* passed when the count has reached it; a timeout of 0 is expired at once
CtxExpired(d) == d.elapsed >= d.deadline

DbReturn(d, db, err) ==
  [d EXCEPT !.pc = "done", !.result = [db |-> db, err |-> err]]

DbStep(d) ==
  /\ initdb' = d
  /\ UNCHANGED <<now, env, activeSessions, rwWriter, rwPending, rwReaders,
                 nextID, pc, local, ret, issued, expiredReported, frame, ctx,
                 users, nextUserID, resp, tickerC, tasks>>

\* lines 143-150: the loop condition, the sleep and the doubling of the delay
DbLoop ==
  /\ initdb.pc = "loop"
  /\ IF initdb.attempt < initdb.RetryAttempts
     THEN IF initdb.attempt > 0
          THEN DbStep([initdb EXCEPT !.pc = "open",
                         !.elapsed = @ + initdb.RetryDelay,
                         !.RetryDelay = @ * 2])
          ELSE DbStep([initdb EXCEPT !.pc = "open"])
     ELSE DbStep([initdb EXCEPT !.pc = "after"])

\* lines 152-158, and the test of line 161: the primary attempt, which takes
\* dur and succeeds or fails
DbOpen ==
  /\ initdb.pc = "open"
  /\ \E ok \in BOOLEAN, dur \in 0..MaxOpenTime :
       LET d == [initdb EXCEPT !.primary = @ + 1, !.elapsed = @ + dur]
       IN IF ok
          THEN DbStep([d EXCEPT !.pc = "after", !.db = "conn", !.err = NilErr])
          ELSE IF d.attempt = d.RetryAttempts - 1 /\ ~d.UseSocket
          THEN DbStep([d EXCEPT !.pc = "fallback", !.db = "nil",
                                !.err = OpenErr])
          ELSE DbStep([d EXCEPT !.pc = "check", !.db = "nil", !.err = OpenErr])

\* lines 161-171: the socket attempt
DbFallback ==
  /\ initdb.pc = "fallback"
  /\ \E ok \in BOOLEAN, dur \in 0..MaxOpenTime :
       LET d == [initdb EXCEPT !.fallback = @ + 1, !.elapsed = @ + dur]
       IN IF ok
          THEN DbStep([d EXCEPT !.pc = "after", !.db = "conn", !.err = NilErr])
          ELSE DbStep([d EXCEPT !.pc = "check", !.db = "nil", !.err = OpenErr])

\* lines 173-179: the test of the overall timeout, and attempt++
DbCheck ==
  /\ initdb.pc = "check"
  /\ IF CtxExpired(initdb)
     THEN DbStep(DbReturn(initdb, "nil",
                          [msg |-> "database connection timed out: ",
                           wraps |-> DeadlineExceeded]))
     ELSE DbStep([initdb EXCEPT !.pc = "loop", !.attempt = @ + 1])

\* lines 181-186: after the loop
DbAfter ==
  /\ initdb.pc = "after"
  /\ IF initdb.err # NilErr
     THEN DbStep(DbReturn(initdb, "nil",
                          [msg |-> "", wraps |-> ErrMaxRetriesReached]))
     ELSE DbStep([initdb EXCEPT !.pc = "pool", !.DB = initdb.db])

\* lines 188-205: DB.DB(), which dereferences DB, the pool settings and the
\* return
DbPool ==
  /\ initdb.pc = "pool"
  /\ IF initdb.DB = "nil"
     THEN DbStep([initdb EXCEPT !.pc = "panic"])
     ELSE \E ok \in BOOLEAN :
            IF ok
            THEN DbStep(DbReturn(initdb, initdb.DB, NilErr))
            ELSE DbStep(DbReturn(initdb, "nil",
                                 [msg |-> "failed to get database connection: ",
                                  wraps |-> ""]))

\* InitDB called with every configuration
DbInit ==
  /\ now = 0
  /\ env = <<"1", "h">>
  /\ activeSessions = <<>>
  /\ rwWriter = None
  /\ rwPending = None
  /\ rwReaders = {}
  /\ nextID = 1
  /\ pc = [p \in Procs |-> "idle"]
  /\ local = [p \in Procs |-> NoLocal]
  /\ ret = NoRet
  /\ issued = <<>>
  /\ expiredReported = {}
  /\ frame = [p \in Procs |-> NoFrame]
  /\ ctx = [p \in Procs |-> NoCtx]
  /\ users = <<>>
  /\ nextUserID = 1
  /\ resp = NoResp
  /\ tickerC = FALSE
  /\ tasks = <<>>
  /\ \E attempts \in 0..MaxRetryAttempts, delay \in 0..MaxRetryDelay,
        socket \in BOOLEAN :
       initdb = InitDBEntry(attempts, delay, socket)

DbNext == DbLoop \/ DbOpen \/ DbFallback \/ DbCheck \/ DbAfter \/ DbPool

DbSpec == DbInit /\ [][DbNext]_vars

\* ---- the protected routes ----
\* the record store of a server that has been running: every user registered
SeedUsers ==
  [i \in Users |-> [ID |-> i, Username |-> UserName(i), Email |-> EmailOf(i),
                    Password |-> HashPassword("pw1"), Deleted |-> FALSE]]

\* the session table after MaxIds logins at time 0 with a TTL of one hour,
\* shared out among the users
SeedSessions ==
  [i \in IssuableIDs |->
     [UserID |-> ((i - 1) % MaxUser) + 1,
      ExpiresAt |-> Add(0, ParseDuration(<<"1", "h">>).d)]]

GateInit ==
  /\ now = 0
  /\ env = <<"1", "h">>
  /\ activeSessions = SeedSessions
  /\ rwWriter = None
  /\ rwPending = None
  /\ rwReaders = {}
  /\ nextID = MaxIds + 1
  /\ pc = [p \in Procs |-> "idle"]
  /\ local = [p \in Procs |-> NoLocal]
  /\ ret = NoRet
  /\ issued = SeedSessions
  /\ expiredReported = {}
  /\ frame = [p \in Procs |-> NoFrame]
  /\ ctx = [p \in Procs |-> NoCtx]
  /\ users = SeedUsers
  /\ nextUserID = MaxUser + 1
  /\ resp = NoResp
  /\ tickerC = FALSE
  /\ initdb = NoInitDB
  /\ tasks = <<>>

\* requests to the protected routes, the clock and the record store
GateNext ==
  \/ Tick
  \/ \E p \in Procs, h \in Headers : AuthMiddlewareCall(p, h)
  \/ \E p \in Procs : GateValidate(p)
  \/ \E p \in Procs : ValRLock(p)
  \/ \E p \in Procs : ValRead(p)
  \/ \E p \in Procs : ValCheck(p)
  \/ \E p \in Procs : ValLock(p)
  \/ \E p \in Procs : ValDelete(p)
  \/ \E p \in Procs : GateResume(p)
  \/ \E p \in Procs : GateUser(p)
  \/ \E p \in Procs : Handler(p)
  \/ \E p \in Procs : HandlerGetUser(p)
  \/ \E u \in Users : DbDeleteUser(u)

GateSpec == GateInit /\ [][GateNext]_vars

\* ---- the public routes ----
AuthInit ==
  /\ InitCore
  /\ env = <<"1", "h">>
  /\ users = <<>>
  /\ nextUserID = 1

\* Register and Login requests and the record store
AuthNext ==
  \/ \E p \in Procs, r \in RegisterRequests : RegisterCall(p, r)
  \/ \E p \in Procs : RegUsername(p)
  \/ \E p \in Procs : RegEmail(p)
  \/ \E p \in Procs : RegCreate(p)
  \/ \E p \in Procs : RegToken(p)
  \/ \E p \in Procs : RegResume(p)
  \/ \E p \in Procs, r \in LoginRequests : LoginCall(p, r)
  \/ \E p \in Procs : LoginFind(p)
  \/ \E p \in Procs : LoginToken(p)
  \/ \E p \in Procs : LoginResume(p)
  \/ \E p \in Procs : GenLock(p)
  \/ \E p \in Procs : GenStore(p)
  \/ \E u \in Users : DbDeleteUser(u)

AuthSpec == AuthInit /\ [][AuthNext]_vars

\* ---- the task routes ----
\* no row (the zero models.Task)
NoTask == [ID |-> 0, UserID |-> 0, Title |-> "", Priority |-> "",
           Status |-> "", Deleted |-> FALSE]

\* the next value of the auto-increment: rows are never removed, DeleteTask
\* sets deleted_at
NextTaskID == Cardinality(DOMAIN tasks) + 1

\* r with the fields of s added or replaced
Ext(r, s) ==
  [k \in (DOMAIN r) \cup (DOMAIN s) |-> IF k \in DOMAIN s THEN s[k] ELSE r[k]]

\* the request of a task route: the :id parameter and the row read by First
TaskFrame == Ext([NoFrame EXCEPT !.kind = "task"],
                 [taskID |-> 0, task |-> NoTask])

\* a response of a task route: also the caller, the :id, the task of the body
\* and the tasks of a list
TaskResp == Ext(NoResp, [caller |-> 0, taskID |-> 0, task |-> NoTask,
                         list |-> {}])

\* bodies of POST / and PUT /:id; Description and DueDate are carried like
\* Title and left out
TaskRequests == [title : {"", "t1", "t2"}, priority : {"", "high"}]

\* bodies of PATCH /:id/status
TaskStatusRequests == [status : {"", "in_progress", "completed"}]

\* the :id parameter: a number, or text that ParseUint rejects
Params == [ok : {TRUE}, n : 0..MaxTasks] \cup {[ok |-> FALSE, n |-> 0]}

\* the status filter of GET /
Filters == {"", "completed"}

\* binding:"required,max=200" on Title
BindTask(req) == req.title # ""

\* binding:"required,oneof=todo in_progress completed" on Status
BindStatus(req) == req.status \in {"todo", "in_progress", "completed"}

\* variant: the query without the user_id condition
FindTask_AnyOwner(id, userID) ==
  IF id \in DOMAIN tasks /\ ~tasks[id].Deleted
  THEN tasks[id] ELSE NoTask

\* Where("id = ? AND user_id = ?", taskID, userID).First(&task), which skips
\* rows with deleted_at set
FindTask(id, userID) ==
  IF id \in DOMAIN tasks /\ tasks[id].UserID = userID /\ ~tasks[id].Deleted
  THEN tasks[id] ELSE NoTask

\* Save(&task): UPDATE of every column of the row with the primary key; when
\* no live row has it (it was deleted meanwhile), GORM either leaves the table
\* alone or falls back to an upsert of the copy, depending on its version
Save(tb, t, upsert) ==
  IF ~tb[t.ID].Deleted \/ upsert THEN [tb EXCEPT ![t.ID] = t] ELSE tb

\* c.JSON of a task handler: the request is over
TaskRespond(p, r) ==
  /\ pc' = [pc EXCEPT ![p] = "idle"]
  /\ frame' = [frame EXCEPT ![p] = NoFrame]
  /\ ctx' = [ctx EXCEPT ![p] = NoCtx]
  /\ ret' = NoRet
  /\ resp' = [r EXCEPT !.proc = p]
  /\ UNCHANGED local

\* the part common to GetTask, UpdateTask, UpdateTaskStatus and DeleteTask:
\* ParseUint, ShouldBindJSON, GetUserID and First; status 0 when the row was
\* found
FindReply(kind, param, bindOK, u, dbOK) ==
  LET r == [TaskResp EXCEPT !.kind = kind, !.caller = u.userID,
                            !.taskID = param.n, !.dbOK = dbOK]
  IN IF ~param.ok
     THEN [r EXCEPT !.status = 400, !.error = <<"Invalid task ID">>]
     ELSE IF ~bindOK
     THEN [r EXCEPT !.status = 400, !.error = <<"Invalid request data: ">>]
     ELSE IF u.panic
     THEN [r EXCEPT !.status = 500, !.error = <<"panic">>]
     ELSE IF ~u.ok
     THEN [r EXCEPT !.status = 401, !.error = <<"Unauthorized">>]
     ELSE IF ~dbOK
     THEN [r EXCEPT !.status = 500, !.error = <<"Failed to retrieve task: ">>]
     ELSE IF FindTask(param.n, u.userID) = NoTask
     THEN [r EXCEPT !.status = 404, !.error = <<"Task not found">>]
     ELSE r

\* AuthMiddleware has accepted the request of user u: c.Set and c.Next
TaskBegin(p, u) ==
  /\ pc[p] = "idle"
  /\ frame[p].kind = "none"
  /\ u \in LiveRows
  /\ Step(p, "handler", TaskFrame)
  /\ ctx' = [ctx EXCEPT ![p] =
               CtxSet(NoCtx, "userID", [type |-> "uint", val |-> u])]
  /\ UNCHANGED <<sessionVars, initdb, tasks, users, nextUserID>>

\* task_handler.go lines 44-87
CreateTask(p, req) ==
  /\ pc[p] = "handler"
  /\ frame[p].kind = "task"
  /\ NextTaskID <= MaxTasks
  /\ LET u == GetUserID(ctx[p])
         r == [TaskResp EXCEPT !.kind = "CreateTask", !.caller = u.userID]
         task == [ID |-> NextTaskID, UserID |-> u.userID, Title |-> req.title,
                  Priority |-> IF req.priority # "" THEN req.priority
                               ELSE "medium",
                  Status |-> "todo", Deleted |-> FALSE]
     IN \E dbOK \in BOOLEAN :
          IF ~BindTask(req)
          THEN /\ TaskRespond(p, [r EXCEPT !.status = 400,
                                    !.error = <<"Invalid request data: ">>])
               /\ UNCHANGED tasks
          ELSE IF ~u.ok
          THEN /\ TaskRespond(p, [r EXCEPT !.status = 401,
                                    !.error = <<"Unauthorized">>])
               /\ UNCHANGED tasks
          ELSE IF ~dbOK
          THEN /\ TaskRespond(p, [r EXCEPT !.status = 500, !.dbOK = FALSE,
                                    !.error = <<"Failed to create task: ">>])
               /\ UNCHANGED tasks
          ELSE /\ tasks' = [i \in (DOMAIN tasks) \cup {NextTaskID} |->
                              IF i \in DOMAIN tasks THEN tasks[i] ELSE task]
               /\ TaskRespond(p, [r EXCEPT !.status = 201, !.task = task,
                                    !.taskID = task.ID])
  /\ UNCHANGED <<sessionVars, initdb, users, nextUserID>>

\* lines 90-126
GetTask(p, param) ==
  /\ pc[p] = "handler"
  /\ frame[p].kind = "task"
  /\ LET u == GetUserID(ctx[p])
     IN \E dbOK \in BOOLEAN :
          LET r == FindReply("GetTask", param, TRUE, u, dbOK)
          IN IF r.status # 0
             THEN TaskRespond(p, r)
             ELSE TaskRespond(p, [r EXCEPT !.status = 200,
                                    !.task = FindTask(param.n, u.userID)])
  /\ UNCHANGED <<sessionVars, initdb, tasks, users, nextUserID>>

\* lines 129-179: up to the assignments to the row that was read
UpdateTask(p, param, req) ==
  /\ pc[p] = "handler"
  /\ frame[p].kind = "task"
  /\ LET u == GetUserID(ctx[p])
     IN \E dbOK \in BOOLEAN :
          LET r == FindReply("UpdateTask", param, BindTask(req), u, dbOK)
              task == FindTask(param.n, u.userID)
          IN IF r.status # 0
             THEN TaskRespond(p, r)
             ELSE /\ Step(p, "upd_save",
                          [frame[p] EXCEPT
                             !.userID = u.userID, !.taskID = param.n,
                             !.task = [task EXCEPT
                                         !.Title = req.title,
                                         !.Priority = IF req.priority # ""
                                                      THEN req.priority
                                                      ELSE @]])
                  /\ UNCHANGED ctx
  /\ UNCHANGED <<sessionVars, initdb, tasks, users, nextUserID>>

\* lines 181-189
UpdateTaskSave(p) ==
  /\ pc[p] = "upd_save"
  /\ LET r == [TaskResp EXCEPT !.kind = "UpdateTask",
                               !.caller = frame[p].userID,
                               !.taskID = frame[p].taskID]
     IN \E dbOK \in BOOLEAN, upsert \in BOOLEAN :
          IF ~dbOK
          THEN /\ TaskRespond(p, [r EXCEPT !.status = 500, !.dbOK = FALSE,
                                    !.error = <<"Failed to update task: ">>])
               /\ UNCHANGED tasks
          ELSE /\ tasks' = Save(tasks, frame[p].task, upsert)
               /\ TaskRespond(p, [r EXCEPT !.status = 200,
                                    !.task = frame[p].task])
  /\ UNCHANGED <<sessionVars, initdb, users, nextUserID>>

\* lines 193-238: up to the assignment to the row that was read
UpdateTaskStatus(p, param, req) ==
  /\ pc[p] = "handler"
  /\ frame[p].kind = "task"
  /\ LET u == GetUserID(ctx[p])
     IN \E dbOK \in BOOLEAN :
          LET r == FindReply("UpdateTaskStatus", param, BindStatus(req), u,
                             dbOK)
              task == FindTask(param.n, u.userID)
          IN IF r.status # 0
             THEN TaskRespond(p, r)
             ELSE /\ Step(p, "status_save",
                          [frame[p] EXCEPT
                             !.userID = u.userID, !.taskID = param.n,
                             !.task = [task EXCEPT !.Status = req.status]])
                  /\ UNCHANGED ctx
  /\ UNCHANGED <<sessionVars, initdb, tasks, users, nextUserID>>

\* lines 240-248
UpdateTaskStatusSave(p) ==
  /\ pc[p] = "status_save"
  /\ LET r == [TaskResp EXCEPT !.kind = "UpdateTaskStatus",
                               !.caller = frame[p].userID,
                               !.taskID = frame[p].taskID]
     IN \E dbOK \in BOOLEAN, upsert \in BOOLEAN :
          IF ~dbOK
          THEN /\ TaskRespond(p, [r EXCEPT !.status = 500, !.dbOK = FALSE,
                                    !.error =
                                      <<"Failed to update task status: ">>])
               /\ UNCHANGED tasks
          ELSE /\ tasks' = Save(tasks, frame[p].task, upsert)
               /\ TaskRespond(p, [r EXCEPT !.status = 200,
                                    !.task = frame[p].task])
  /\ UNCHANGED <<sessionVars, initdb, users, nextUserID>>

\* lines 252-285
DeleteTask(p, param) ==
  /\ pc[p] = "handler"
  /\ frame[p].kind = "task"
  /\ LET u == GetUserID(ctx[p])
     IN \E dbOK \in BOOLEAN :
          LET r == FindReply("DeleteTask", param, TRUE, u, dbOK)
          IN IF r.status # 0
             THEN TaskRespond(p, r)
             ELSE /\ Step(p, "delete_row",
                          [frame[p] EXCEPT
                             !.userID = u.userID, !.taskID = param.n,
                             !.task = FindTask(param.n, u.userID)])
                  /\ UNCHANGED ctx
  /\ UNCHANGED <<sessionVars, initdb, tasks, users, nextUserID>>

\* lines 287-297: Delete(&task) sets deleted_at of the row with the primary key
DeleteTaskRow(p) ==
  /\ pc[p] = "delete_row"
  /\ LET r == [TaskResp EXCEPT !.kind = "DeleteTask",
                               !.caller = frame[p].userID,
                               !.taskID = frame[p].taskID]
     IN \E dbOK \in BOOLEAN :
          IF ~dbOK
          THEN /\ TaskRespond(p, [r EXCEPT !.status = 500, !.dbOK = FALSE,
                                    !.error = <<"Failed to delete task: ">>])
               /\ UNCHANGED tasks
          ELSE /\ tasks' = [tasks EXCEPT ![frame[p].taskID].Deleted = TRUE]
               /\ TaskRespond(p, [r EXCEPT !.status = 200])
  /\ UNCHANGED <<sessionVars, initdb, users, nextUserID>>

\* lines 301-399, for a first page that holds every row
GetTasks(p, status) ==
  /\ pc[p] = "handler"
  /\ frame[p].kind = "task"
  /\ LET u == GetUserID(ctx[p])
         r == [TaskResp EXCEPT !.kind = "GetTasks", !.caller = u.userID]
     IN \E dbOK \in BOOLEAN :
          IF ~u.ok
          THEN TaskRespond(p, [r EXCEPT !.status = 401,
                                 !.error = <<"Unauthorized">>])
          ELSE IF ~dbOK
          THEN TaskRespond(p, [r EXCEPT !.status = 500, !.dbOK = FALSE,
                                 !.error = <<"Failed to count tasks: ">>])
          ELSE TaskRespond(p, [r EXCEPT !.status = 200,
                                 !.list = {tasks[i] : i \in
                                   {j \in DOMAIN tasks :
                                      /\ tasks[j].UserID = u.userID
                                      /\ ~tasks[j].Deleted
                                      /\ status # ""
                                           => tasks[j].Status = status}}])
  /\ UNCHANGED <<sessionVars, initdb, tasks, users, nextUserID>>

\* the server with every user registered and no task
TaskInit ==
  /\ InitCore
  /\ env = <<"1", "h">>
  /\ users = SeedUsers
  /\ nextUserID = MaxUser + 1

TaskNext ==
  \/ \E p \in Procs, u \in Users : TaskBegin(p, u)
  \/ \E p \in Procs, r \in TaskRequests : CreateTask(p, r)
  \/ \E p \in Procs, t \in Params : GetTask(p, t)
  \/ \E p \in Procs, t \in Params, r \in TaskRequests : UpdateTask(p, t, r)
  \/ \E p \in Procs : UpdateTaskSave(p)
  \/ \E p \in Procs, t \in Params, r \in TaskStatusRequests :
       UpdateTaskStatus(p, t, r)
  \/ \E p \in Procs : UpdateTaskStatusSave(p)
  \/ \E p \in Procs, t \in Params : DeleteTask(p, t)
  \/ \E p \in Procs : DeleteTaskRow(p)
  \/ \E p \in Procs, f \in Filters : GetTasks(p, f)

TaskSpec == TaskInit /\ [][TaskNext]_vars

TypeOK ==
  /\ now \in 0..MaxTime
  /\ rwWriter \in Procs \cup {None}
  /\ rwPending \in Procs \cup {None}
  /\ rwReaders \subseteq Procs
  /\ DOMAIN activeSessions \subseteq IssuableIDs

\* ---- properties ----
ValidateReturned == ret.op = "ValidateToken"

\* p is about to mutate the map / to read it
Writing(p) == pc[p] \in {"gen_store", "val_delete", "cl_sweep"}

Reading(p) == pc[p] = "val_read"

\* p takes a step of a ValidateToken call that ends before the expiry branch
ReadPathStep(p) == pc[p] \in {"val_rlock", "val_read"} /\ pc'[p] # pc[p]

\* C1: ValidateToken applied to an id handed out by GenerateToken(u), when it
\* reads the clock strictly before the session's expiresAt, returns u and no
\* error, whatever the other goroutines did in between.
C1_ValidateIssued ==
  (ValidateReturned /\ ret.sessionID \in DOMAIN issued
     /\ ret.at < issued[ret.sessionID].ExpiresAt)
  => (ret.err = ErrNil /\ ret.userID = issued[ret.sessionID].UserID)

C1_Witness ==
  /\ ValidateReturned
  /\ ret.sessionID \in DOMAIN issued
  /\ ret.at < issued[ret.sessionID].ExpiresAt
  /\ ret.err = ErrNil
  /\ \E q \in Procs : pc[q] # "idle"

\* C2: ValidateToken of a session found in the store reports "session expired"
\* whenever the clock it reads is >= expiresAt (the instant now = expiresAt
\* included), and the entry is then gone from the store.
C2_ExpiredAtOrAfter ==
  (ValidateReturned /\ ret.present
     /\ ret.at >= issued[ret.sessionID].ExpiresAt)
  => (ret.err = ErrExpired /\ ret.sessionID \notin DOMAIN activeSessions)

\* C3: ValidateToken("") returns "empty session ID", ValidateToken of a
\* non-empty id that is not in the store returns "invalid session"; both return
\* userID 0 and no step of such a call changes the store.
C3_EmptyOrUnknown ==
  [][ /\ (ret'.op = "ValidateToken" /\ ret'.sessionID = EmptyID)
         => (ret'.err = ErrEmpty /\ ret'.userID = 0
             /\ activeSessions' = activeSessions)
      /\ (ret'.op = "ValidateToken" /\ ret'.sessionID # EmptyID /\ ~ret'.present)
         => (ret'.err = ErrInvalid /\ ret'.userID = 0
             /\ activeSessions' = activeSessions)
      /\ \A p \in Procs : ReadPathStep(p) => activeSessions' = activeSessions
    ]_vars

C3_Witness ==
  /\ ValidateReturned
  /\ ret.sessionID \in DOMAIN issued
  /\ ~ret.present
  /\ ret.err = ErrInvalid
  /\ activeSessions # <<>>

\* C4 as stated: "session expired" is reported at most once per session id,
\* whatever runs concurrently.
C4_ExpiredOnce ==
  [][ (ret'.op = "ValidateToken" /\ ret'.err = ErrExpired)
      => ret'.sessionID \notin expiredReported ]_vars

\* C4 amended: "session expired" is reported only by calls that found the entry
\* and read a clock past its expiresAt; once it has been reported for an id the
\* entry is absent, and every ValidateToken call that starts afterwards returns
\* "invalid session".
C4_AfterExpiredNotFound ==
  /\ \A id \in expiredReported : id \notin DOMAIN activeSessions
  /\ (ValidateReturned /\ ret.afterExp) => ret.err = ErrInvalid
  /\ (ValidateReturned /\ ret.err = ErrExpired)
     => (ret.present /\ ret.at > issued[ret.sessionID].ExpiresAt)

C4_Witness ==
  /\ ValidateReturned
  /\ ret.afterExp
  /\ ret.err = ErrInvalid
  /\ ret.sessionID \in expiredReported

\* C5: a CleanupSessions pass removes all and only the entries with
\* expiresAt <= now (now being the clock value the pass read), and keeps the
\* others as they were.
C5_SweepAtOrBefore ==
  [][ \A p \in Procs : (pc[p] = "cl_sweep" /\ pc'[p] = "idle")
      => /\ DOMAIN activeSessions' =
              {id \in DOMAIN activeSessions :
                 activeSessions[id].ExpiresAt > local[p].now}
         /\ \A id \in DOMAIN activeSessions' :
              activeSessions'[id] = activeSessions[id] ]_vars

\* C6: a CleanupSessions pass is idempotent (a second pass at the same clock
\* value changes nothing), removes no session with now < expiresAt, and leaves
\* in place every unexpired session that a concurrent ValidateToken is
\* looking up.
C6_SweepIdempotentSafe ==
  [][ \A p \in Procs : (pc[p] = "cl_sweep" /\ pc'[p] = "idle")
      => /\ Sweep(activeSessions', local[p].now) = activeSessions'
         /\ \A id \in DOMAIN activeSessions :
              now < activeSessions[id].ExpiresAt
              => (id \in DOMAIN activeSessions'
                  /\ activeSessions'[id] = activeSessions[id])
         /\ \A q \in Procs :
              (pc[q] \in {"val_rlock", "val_read", "val_check"}
               /\ local[q].sessionID \in DOMAIN activeSessions
               /\ now < activeSessions[local[q].sessionID].ExpiresAt)
              => local[q].sessionID \in DOMAIN activeSessions' ]_vars

C6_Witness ==
  /\ ret.op = "CleanupSessions"
  /\ \E id \in DOMAIN issued :
       id \notin DOMAIN activeSessions /\ id \notin expiredReported
  /\ \E q \in Procs :
       /\ pc[q] \in {"val_rlock", "val_read", "val_check"}
       /\ local[q].sessionID \in DOMAIN activeSessions
       /\ now < activeSessions[local[q].sessionID].ExpiresAt

\* C7: concurrent GenerateToken calls return pairwise distinct ids; each insert
\* adds its own entry, bound to the caller's userID, and leaves every other
\* entry in the store.
C7_ConcurrentIssue ==
  [][ \A p \in Procs : (pc[p] = "gen_store" /\ pc'[p] = "idle")
      => LET id == local[p].sessionID
         IN /\ id \notin DOMAIN issued
            /\ \A q \in Procs \ {p} :
                 pc[q] \in {"gen_lock", "gen_store"} => local[q].sessionID # id
            /\ ret'.sessionID = id /\ ret'.err = ErrNil
            /\ DOMAIN activeSessions' = (DOMAIN activeSessions) \cup {id}
            /\ activeSessions'[id].UserID = local[p].userID
            /\ \A x \in DOMAIN activeSessions :
                 activeSessions'[x] = activeSessions[x] ]_vars

\* the call that drew the smaller id returns after the call that drew the
\* larger one stored its entry: the two calls overlapped
C7_Witness ==
  /\ ret.op = "GenerateToken"
  /\ ret.err = ErrNil
  /\ ret.sessionID \in DOMAIN activeSessions
  /\ \E x \in DOMAIN activeSessions : x > ret.sessionID

\* C8: the (userID, expiresAt) stored under an id is the pair written when the
\* id was created; no step changes an existing entry, and an id that was removed
\* never comes back.
C8_Immutable ==
  [][ /\ \A id \in DOMAIN activeSessions' :
           id \in DOMAIN issued' /\ activeSessions'[id] = issued'[id]
      /\ \A id \in (DOMAIN activeSessions) \cap (DOMAIN activeSessions') :
           activeSessions'[id] = activeSessions[id]
      /\ \A id \in (DOMAIN activeSessions') \ (DOMAIN activeSessions) :
           id \notin DOMAIN issued ]_vars

\* a second session of a user, issued later, next to the first one
C8_Witness ==
  /\ ret.op = "GenerateToken"
  /\ ret.err = ErrNil
  /\ \E x, y \in DOMAIN activeSessions :
       /\ x # y
       /\ activeSessions[x].UserID = activeSessions[y].UserID
       /\ activeSessions[x].ExpiresAt # activeSessions[y].ExpiresAt

\* C9: no step of a ValidateToken call that succeeds changes the store, and
\* the validated entry still carries the expiresAt it was created with.
C9_NoSlidingExpiration ==
  [][ /\ (ret'.op = "ValidateToken" /\ ret'.err = ErrNil)
         => /\ activeSessions' = activeSessions
            /\ ret'.sessionID \in DOMAIN activeSessions'
            /\ activeSessions'[ret'.sessionID].ExpiresAt
                 = issued[ret'.sessionID].ExpiresAt
      /\ \A p \in Procs : ReadPathStep(p) => activeSessions' = activeSessions
    ]_vars

\* validated again at a later hour, the expiry is the original one
C9_Witness ==
  /\ ValidateReturned
  /\ ret.err = ErrNil
  /\ ret.at > 0
  /\ ret.at = issued[ret.sessionID].ExpiresAt
  /\ activeSessions[ret.sessionID] = issued[ret.sessionID]

\* C10: a goroutine reads the map only while it holds activeSessionsMutex
\* (shared or exclusive) and mutates it only while it holds it exclusively; a
\* writer is never in its critical section together with another reader or
\* writer.
C10_ReadersWriter ==
  /\ \A p \in Procs : Writing(p) => (rwWriter = p /\ rwReaders = {})
  /\ \A p \in Procs : Reading(p) => (p \in rwReaders /\ rwWriter = None)
  /\ \A p, q \in Procs :
       (p # q /\ Writing(p)) => (~Writing(q) /\ ~Reading(q))

\* two lookups inside their read sections at the same time
C10_Witness ==
  \E p, q \in Procs : p # q /\ Reading(p) /\ Reading(q)

\* the duration, in hours, that a value of the TTL setting stands for: 24 when
\* the setting is absent, n for the digits of n alone, n for n followed by h
SettingHours(e) ==
  IF e = <<>> THEN 24
  ELSE IF DigitPrefix(e) = Len(e) THEN LeadingInt(e, 0)
  ELSE LeadingInt(SubSeq(e, 1, DigitPrefix(e)), 0)

\* C18: the TTL of an issued session is the duration named by JWT_EXPIRES_IN,
\* 24 hours when the setting is absent and n hours when its value is the
\* number n without a unit: a GenerateToken call whose random source works
\* stores a session with expiresAt = time of issue + that duration.
C18_TTLSetting ==
  (ret.op = "GenerateToken" /\ ret.err # ErrRand)
  => /\ ret.err = ErrNil
     /\ ret.sessionID \in DOMAIN activeSessions
     /\ activeSessions[ret.sessionID].ExpiresAt = ret.at + SettingHours(env)

\* C19: GenerateToken fails only if the random source fails, for every userID
\* and every value of the TTL setting.
C19_FailsOnlyOnRand ==
  (ret.op = "GenerateToken" /\ ret.err # ErrNil) => ret.err = ErrRand

\* C11: under fair scheduling every started GenerateToken, ValidateToken and
\* CleanupSessions call returns: no goroutine stays inside a session function
\* for ever, and none waits for ever for activeSessionsMutex.
C11_CallsReturn == \A p \in Procs : (pc[p] # "idle") ~> (pc[p] = "idle")

\* a goroutine waits for the lock while another one holds it exclusively
C11_Witness ==
  \E p, q \in Procs :
    /\ p # q
    /\ pc[p] \in {"gen_lock", "val_rlock", "val_lock", "cl_lock"}
    /\ rwWriter = q

\* a response of the middleware or of the handler behind it
GateAnswered(p) == resp'.proc = p /\ resp'.kind = "protected"

\* C15: a request with no Authorization header, or an empty one, is answered
\* 401 "Authorization header is required" at once: ValidateToken is not
\* called, the session store is unchanged, nothing is attached to the context
\* and the downstream handler does not run.
C15_NoHeader ==
  [][ \A p \in Procs :
        /\ (GateAnswered(p) /\ resp'.hdr = <<>>)
             => /\ resp'.status = 401
                /\ resp'.error = <<"Authorization header is required">>
                /\ ~resp'.ran
                /\ pc[p] = "idle"
                /\ ret' = NoRet
                /\ local' = local
                /\ activeSessions' = activeSessions
                /\ ctx[p] = NoCtx /\ ctx'[p] = NoCtx
        /\ (frame'[p].kind = "protected") => (frame'[p].hdr # <<>>)
    ]_vars

\* the header is missing while another request is being served
C15_Witness ==
  /\ resp.kind = "protected"
  /\ resp.hdr = <<>>
  /\ resp.status = 401
  /\ \E q \in Procs : q # resp.proc /\ pc[q] = "handler"

\* a response of the middleware to a request whose ValidateToken call failed
SessionFailure(r) == r.kind = "protected" /\ ~r.ran /\ r.err # ErrNil

\* C12: the three failure kinds of ValidateToken (EmptyCredential, NotFound,
\* Expired) give one and the same response at the protected routes: two
\* requests rejected for a session failure get the same status, 401, and the
\* same message, whatever the kinds of their failures.
C12_GenericInvalid ==
  [][ /\ SessionFailure(resp') => resp'.status = 401
      /\ (SessionFailure(resp) /\ SessionFailure(resp'))
           => (resp'.status = resp.status /\ resp'.error = resp.error)
    ]_vars

\* the credential a header value carries: the session id that is left when the
\* white space is taken away, if nothing else is left with it
CredentialOf(h) ==
  LET s == SelectSeq(h, LAMBDA t : t.t # "sp")
  IN IF s = <<>> THEN EmptyID
     ELSE IF Len(s) = 1 /\ s[1].t = "id" THEN s[1].id
     ELSE BogusID

\* the middleware lets the request of p through to the handler
Accepted(p) == pc[p] # "handler" /\ pc'[p] = "handler"

\* the middleware answers the request of p itself
Rejected(p) == GateAnswered(p) /\ ~resp'.ran

\* C13 as stated: every credential but that of a valid session with a user
\* row is answered 401 with a message that starts "Invalid session: ".
C13_OthersInvalidSession ==
  [][ \A p \in Procs :
        (Rejected(p) /\ resp'.hdr # <<>>)
          => (resp'.status = 401 /\ Head(resp'.error) = "Invalid session: ")
    ]_vars

\* C13: a request reaches the handler exactly when its header value, trimmed,
\* is the id of an issued session that ValidateToken accepts and the row of
\* its user is found; the handler then sees the userID bound to the session.
\* A request is rejected, with 401 and without the handler, only for a missing
\* header, for a credential that ValidateToken rejects (empty, not in the
\* store, or past its expiresAt: message "Invalid session: " and the error),
\* or for a user row that is not found.
C13_GateIff ==
  [][ \A p \in Procs :
        LET k == CredentialOf(frame[p].hdr)
        IN /\ Accepted(p)
                => /\ k \in DOMAIN issued
                   /\ frame[p].result.err = ErrNil
                   /\ frame[p].result.userID = issued[k].UserID
                   /\ GetUserID(ctx'[p]) =
                        [userID |-> issued[k].UserID, ok |-> TRUE,
                         panic |-> FALSE]
                   /\ issued[k].UserID \in LiveRows
           /\ Rejected(p)
                => /\ resp'.status = 401
                   /\ pc[p] # "handler"
                   /\ ctx[p] = NoCtx
                   /\ \/ resp'.hdr = <<>>
                      \/ /\ resp'.err = ErrEmpty
                         /\ k = EmptyID
                         /\ resp'.error = <<"Invalid session: ", ErrEmpty>>
                      \/ /\ resp'.err = ErrInvalid
                         /\ k \notin DOMAIN activeSessions
                         /\ resp'.error = <<"Invalid session: ", ErrInvalid>>
                      \/ /\ resp'.err = ErrExpired
                         /\ k \in DOMAIN issued
                         /\ now > issued[k].ExpiresAt
                         /\ resp'.error = <<"Invalid session: ", ErrExpired>>
                      \/ /\ resp'.err = ErrNil
                         /\ k \in DOMAIN issued
                         /\ issued[k].UserID \notin LiveRows \/ ~resp'.dbOK
    ]_vars

\* a session id sent with white space around it is let through
C13_Witness ==
  \E p \in Procs :
    /\ pc[p] = "handler"
    /\ Len(frame[p].hdr) = 3
    /\ Head(frame[p].hdr) = SP
    /\ \E q \in Procs : pc[q] = "resume" /\ frame[q].result.err = ErrExpired

\* the middleware of p queries the row of a user that is not there
LookupOfAbsentUser(p) ==
  /\ pc[p] = "gate_user"
  /\ pc'[p] # "gate_user"
  /\ frame[p].userID \notin LiveRows

\* C16 as stated: when ValidateToken succeeds but the row of the user is
\* absent, the request is rejected with 401 and the message "user not found",
\* nothing is attached to the context and the handler does not run.
C16_UserNotFound ==
  [][ \A p \in Procs :
        LookupOfAbsentUser(p)
          => /\ Rejected(p)
             /\ resp'.status = 401
             /\ resp'.error = <<"user not found">>
             /\ ctx[p] = NoCtx /\ ctx'[p] = NoCtx
             /\ pc'[p] = "idle"
    ]_vars

\* C16: when ValidateToken succeeds but the row of the user is absent, the
\* request is rejected with 401 and the message "User not found or invalid
\* session", nothing is attached to the context and the handler does not run.
C16_UserRowAbsent ==
  [][ \A p \in Procs :
        LookupOfAbsentUser(p)
          => /\ Rejected(p)
             /\ resp'.status = 401
             /\ resp'.error = <<"User not found or invalid session">>
             /\ resp'.err = ErrNil
             /\ ctx[p] = NoCtx /\ ctx'[p] = NoCtx
             /\ pc'[p] = "idle"
    ]_vars

\* the user of a session that is still valid was deleted
C16_Witness ==
  /\ resp.kind = "protected"
  /\ ~resp.ran
  /\ resp.err = ErrNil
  /\ resp.dbOK
  /\ resp.hdr # <<>>
  /\ CredentialOf(resp.hdr) \in DOMAIN activeSessions
  /\ activeSessions[CredentialOf(resp.hdr)].UserID \notin LiveRows

\* C14: once the middleware has accepted a request, GetUserID(c) gives the
\* userID of the session and true, and GetUser(c) gives the User row that the
\* middleware looked up and true, neither of them with a panic, however often
\* they are called.
C14_IdentityReadable ==
  \A p \in Procs :
    pc[p] = "handler"
      => /\ GetUserID(ctx[p]) =
              [userID |-> frame[p].userID, ok |-> TRUE, panic |-> FALSE]
         /\ ~GetUser(ctx[p]).panic
         /\ GetUser(ctx[p]).ok
         /\ GetUser(ctx[p]).user.ID = frame[p].userID

\* C17: the identity is attached to the request: the userID a handler reads
\* from its context is the one bound to the session id of its own request,
\* also while a request of another user is being served, and a request that
\* the middleware has not accepted has no userID in its context.
C17_RequestScoped ==
  /\ \A p \in Procs :
       /\ pc[p] = "handler"
            => GetUserID(ctx[p]) =
                 [userID |-> issued[CredentialOf(frame[p].hdr)].UserID,
                  ok |-> TRUE, panic |-> FALSE]
       /\ pc[p] # "handler" => ~GetUserID(ctx[p]).ok
  /\ (resp.kind = "protected" /\ resp.status = 200)
       => resp.userID = issued[CredentialOf(resp.hdr)].UserID
  /\ (resp.kind = "protected" /\ ~resp.ran) => ~GetUserID(ctx[resp.proc]).ok

\* the handlers of two users run at the same time
C17_Witness ==
  \E p, q \in Procs :
    /\ pc[p] = "handler"
    /\ pc[q] = "handler"
    /\ GetUserID(ctx[p]).userID # GetUserID(ctx[q]).userID

\* a response of Register or Login to the request of p
AuthAnswered(p) == resp'.proc = p /\ resp'.kind \in {"register", "login"}

\* C20: sessions are created only by a successful registration or login. The
\* store changes only inside a Register or Login request, by one new entry
\* bound to the user of that request; a request that ends with 201 or 200 has
\* added exactly that one entry and its id is the token of the response; a
\* request that ends with 400, 401, 409 or 500 has added none.
C20_SessionsFromAuth ==
  [][ /\ activeSessions' # activeSessions
           => \E p \in Procs :
                /\ frame[p].kind \in {"register", "login"}
                /\ frame[p].result = NoResult
                /\ \E k \in IssuableIDs :
                     /\ k \notin DOMAIN activeSessions
                     /\ DOMAIN activeSessions' = (DOMAIN activeSessions) \cup {k}
                     /\ \A x \in DOMAIN activeSessions :
                          activeSessions'[x] = activeSessions[x]
                     /\ activeSessions'[k].UserID = frame[p].userID
                     /\ frame[p].userID \in DOMAIN users
                     /\ frame'[p].result =
                          [sessionID |-> k, userID |-> 0, err |-> ErrNil]
      /\ \A p \in Procs :
           AuthAnswered(p)
             => /\ activeSessions' = activeSessions
                /\ resp'.status \in {200, 201, 400, 401, 409, 500}
                /\ resp'.status \in {200, 201}
                     => /\ frame[p].result.sessionID # EmptyID
                        /\ resp'.token = frame[p].result.sessionID
                        /\ resp'.token \in DOMAIN activeSessions
                        /\ activeSessions[resp'.token].UserID = resp'.userID
                        /\ resp'.userID = frame[p].userID
                /\ resp'.status \notin {200, 201}
                     => /\ frame[p].result.sessionID = EmptyID
                        /\ resp'.token = EmptyID
      /\ \A p \in Procs :
           (frame[p].result # NoResult /\ frame'[p].kind # "none")
             => frame'[p].result = frame[p].result
    ]_vars

\* a login answered 200 with the second session of the store
C20_Witness ==
  /\ resp.kind = "login"
  /\ resp.status = 200
  /\ resp.token \in DOMAIN activeSessions
  /\ DOMAIN activeSessions = IssuableIDs
  /\ \E q \in Procs : frame[q].kind = "register"

\* C21: a user may hold any number of sessions at once. The insert of
\* GenerateToken adds one entry and leaves every entry already in the store as
\* it was, so a session of the user issued earlier, validated before its
\* expiresAt, still gives the user after a later session of the same user was
\* issued.
C21_ManySessions ==
  [][ /\ \A p \in Procs :
           (pc[p] = "gen_store" /\ pc'[p] # "gen_store")
             => /\ \A x \in DOMAIN activeSessions :
                     /\ x \in DOMAIN activeSessions'
                     /\ activeSessions'[x] = activeSessions[x]
                /\ Cardinality(DOMAIN activeSessions')
                     = Cardinality(DOMAIN activeSessions) + 1
      /\ (/\ ret'.op = "ValidateToken"
          /\ ret'.sessionID \in DOMAIN issued
          /\ ret'.at < issued[ret'.sessionID].ExpiresAt
          /\ \E y \in DOMAIN issued :
               /\ y # ret'.sessionID
               /\ issued[y].UserID = issued[ret'.sessionID].UserID)
           => (ret'.err = ErrNil /\ ret'.userID = issued[ret'.sessionID].UserID)
    ]_vars

\* the first session of a user is validated while a later one of the same
\* user is in the store
C21_Witness ==
  /\ ret.op = "ValidateToken"
  /\ ret.err = ErrNil
  /\ \E y \in DOMAIN activeSessions :
       /\ y > ret.sessionID
       /\ activeSessions[y].UserID = ret.userID

\* C27: the lazy eviction of ValidateToken removes no entry that is not
\* expired. The delete, which comes after the read lock was released and the
\* write lock taken, removes at most the entry under the id of the call, and
\* if an entry is still there it is the one the call read, with its expiresAt
\* in the past, whatever GenerateToken, CleanupSessions and other
\* ValidateToken calls did in between.
C27_EvictsOnlyExpired ==
  [][ \A p \in Procs :
        (pc[p] = "val_delete" /\ pc'[p] # "val_delete")
          => /\ \A x \in DOMAIN activeSessions :
                  x # local[p].sessionID
                    => (x \in DOMAIN activeSessions'
                        /\ activeSessions'[x] = activeSessions[x])
             /\ local[p].sessionID \notin DOMAIN activeSessions'
             /\ local[p].sessionID \in DOMAIN activeSessions
                  => /\ activeSessions[local[p].sessionID] = local[p].session
                     /\ now > activeSessions[local[p].sessionID].ExpiresAt
    ]_vars

\* an eviction with the entry still there and a valid session next to it,
\* while another goroutine waits for the lock
C27_Witness ==
  \E p, q \in Procs :
    /\ pc[p] = "val_delete"
    /\ local[p].sessionID \in DOMAIN activeSessions
    /\ \E x \in DOMAIN activeSessions :
         now <= activeSessions[x].ExpiresAt
    /\ pc[q] \in {"gen_lock", "cl_lock", "val_lock", "val_rlock"}

\* C28: ValidateToken and CleanupSessions apply the same expiry test. At any
\* instant t, ValidateToken takes a session it found for expired exactly when
\* a sweep reading the clock at t would remove that session, and a sweep
\* removes exactly the entries that ValidateToken would take for expired at
\* the instant the sweep read the clock.
C28_SameExpiryTest ==
  [][ \A p \in Procs :
        /\ (pc[p] = "val_check" /\ pc'[p] # "val_check" /\ local[p].exists)
             => LET id == local[p].sessionID
                    one == [x \in {id} |-> local[p].session]
                IN (pc'[p] = "val_lock") <=> (id \notin DOMAIN Sweep(one, now))
        /\ (pc[p] = "cl_sweep" /\ pc'[p] # "cl_sweep")
             => \A x \in DOMAIN activeSessions :
                  (x \notin DOMAIN activeSessions')
                    <=> After(local[p].now, activeSessions[x].ExpiresAt)
    ]_vars

\* at the instant a session expires, a validation accepts it while a sweep
\* that read the same clock value is about to run
C28_Witness ==
  /\ ret.op = "ValidateToken"
  /\ ret.err = ErrNil
  /\ ret.at = issued[ret.sessionID].ExpiresAt
  /\ \E q \in Procs : pc[q] = "cl_sweep" /\ local[q].now = ret.at

\* the live rows with an email, and whether one of them holds a password
KnownEmail(e) == {i \in DOMAIN users : ~users[i].Deleted /\ users[i].Email = e}

RightPassword(e, w) ==
  \E i \in KnownEmail(e) : users[i].Password = <<"bcrypt", w>>

\* C24: Login gives one and the same answer, 401 "Invalid email or password",
\* to an unknown email and to a known email with a wrong password, and issues
\* no session for either; 200 with a token is given only for a known email
\* with its password.
C24_LoginUniform ==
  [][ \A p \in Procs :
        /\ (pc[p] = "login_find" /\ pc'[p] # "login_find")
             => LET e == frame[p].req.email
                    w == frame[p].req.password
                IN /\ ~RightPassword(e, w)
                        => /\ AuthAnswered(p)
                           /\ resp'.status = 401
                           /\ resp'.error = <<"Invalid email or password">>
                           /\ resp'.token = EmptyID
                           /\ frame[p].result = NoResult
                           /\ activeSessions' = activeSessions
                   /\ pc'[p] = "login_token"
                        => /\ RightPassword(e, w)
                           /\ frame'[p].userID \in KnownEmail(e)
        /\ (AuthAnswered(p) /\ resp'.kind = "login" /\ resp'.status = 200)
             => /\ resp'.token # EmptyID
                /\ resp'.userID \in DOMAIN users
                /\ users[resp'.userID].Email = resp'.req.email
                /\ users[resp'.userID].Password = <<"bcrypt", resp'.req.password>>
    ]_vars

\* a known email with a wrong password is turned away
C24_Witness ==
  /\ resp.kind = "login"
  /\ resp.status = 401
  /\ resp.dbOK
  /\ KnownEmail(resp.req.email) # {}
  /\ ~RightPassword(resp.req.email, resp.req.password)

\* a response of Register to the request of p
RegAnswered(p) == resp'.proc = p /\ resp'.kind = "register"

\* the row that the request of p created, if it created one
CreatedRow(p) == frame[p].userID

\* C29 as stated: a Register request that is not answered 201 has left the
\* user table as it was; after 500 "Failed to generate session" there is no
\* row of the request and its username and email are free for a retry.
C29_AllOrNothing ==
  [][ \A p \in Procs :
        (RegAnswered(p) /\ resp'.status # 201)
          => /\ CreatedRow(p) \notin DOMAIN users
             /\ Head(resp'.error) = "Failed to generate session: "
                  => ~UniqueViolation(frame[p].req.username, frame[p].req.email)
    ]_vars

\* C29: a Register request answered 400 or 409, or 500 for a failed query or
\* a failed Create, has created no row. A request answered 500 "Failed to
\* generate session" has created its row, which stays in the table with the
\* username and email of the request, and the response carries no token; a
\* request answered 201 has created its row and was issued a session. The table gains rows in no other way.
C29_RowStaysWithoutSession ==
  [][ /\ \A p \in Procs :
           RegAnswered(p)
             => /\ users' = users
                /\ (resp'.status # 201 /\ pc[p] # "resume")
                     => CreatedRow(p) = 0
                /\ pc[p] = "resume"
                     => /\ CreatedRow(p) \in DOMAIN users
                        /\ users[CreatedRow(p)].Username = resp'.req.username
                        /\ users[CreatedRow(p)].Email = resp'.req.email
                        /\ resp'.status \in {201, 500}
                /\ (resp'.status = 500 /\ pc[p] = "resume")
                     => /\ resp'.error =
                             <<"Failed to generate session: ", resp'.err>>
                        /\ resp'.err # ErrNil
                        /\ resp'.token = EmptyID
                /\ resp'.status = 201 => pc[p] = "resume" /\ resp'.err = ErrNil
      /\ DOMAIN users' # DOMAIN users
           => \E p \in Procs :
                /\ pc[p] = "reg_create"
                /\ CreatedRow(p) = 0
                /\ frame'[p].userID \notin DOMAIN users
                /\ DOMAIN users' = (DOMAIN users) \cup {frame'[p].userID}
    ]_vars

\* session issuance failed and the row of the request is in the table
C29_Witness ==
  /\ resp.kind = "register"
  /\ resp.status = 500
  /\ resp.err = ErrRand
  /\ \E i \in LiveRows :
       users[i].Username = resp.req.username /\ users[i].Email = resp.req.email

\* a live row other than the one the request of p created holds the
\* username or the email of the request
TakenByOther(p) ==
  \E i \in LiveRows :
    /\ i # CreatedRow(p)
    /\ \/ users[i].Username = frame[p].req.username
       \/ users[i].Email = frame[p].req.email

\* C23: a Register request whose username or email is held by another user
\* when it is answered, the store itself working, is answered 409 and has
\* created no user and no session; of two concurrent requests for one name
\* the one that did not create the row is answered 409.
C23_TakenIs409 ==
  [][ \A p \in Procs :
        (RegAnswered(p) /\ BindRegister(frame[p].req) /\ resp'.dbOK
           /\ TakenByOther(p))
          => /\ resp'.status = 409
             /\ CreatedRow(p) = 0
             /\ resp'.token = EmptyID
    ]_vars

\* the expiry of the session stored under id has passed
Passed(id) ==
  /\ id \in DOMAIN activeSessions
  /\ After(now, activeSessions[id].ExpiresAt)

\* C25: in the running server every session whose expiresAt has passed is
\* eventually removed from the store, whether or not a request presents its
\* id again: the cleanup goroutine sweeps after every tick.
C25_ExpiredEventuallyRemoved ==
  \A id \in IssuableIDs : Passed(id) ~> id \notin DOMAIN activeSessions

\* the cleanup goroutine has just removed a session that no request presented
\* after its expiry
C25_Witness ==
  /\ ret.op = "CleanupSessions"
  /\ ret.proc = Sweeper
  /\ \E id \in DOMAIN issued :
       /\ id \notin DOMAIN activeSessions
       /\ id \notin expiredReported
       /\ After(ret.at, issued[id].ExpiresAt)

\* InitDB is over: it has returned or panicked
DbOver == initdb.pc \in {"done", "panic"}

\* every connection attempt of the call failed
AllFailed == initdb.primary > 0 /\ initdb.err # NilErr

\* C26: InitDB returns; it has made at most RetryAttempts primary attempts and
\* at most one socket attempt; a nil error comes only with a connected DB;
\* and when every attempt failed the DB is nil and the error wraps
\* ErrMaxRetriesReached.
C26_InitDBOutcome ==
  DbOver
    => /\ initdb.pc = "done"
       /\ initdb.primary <= initdb.RetryAttempts
       /\ initdb.fallback <= 1
       /\ initdb.result.err = NilErr => initdb.result.db = "conn"
       /\ AllFailed
            => /\ initdb.result.db = "nil"
               /\ initdb.result.err.wraps = ErrMaxRetriesReached

\* the user AuthMiddleware authenticated for the request p is serving
CallerOf(p) == ctx[p]["userID"].val

\* p ends a request on a task route with a response of kind k
TaskAnswered(p, k) == pc[p] # "idle" /\ resp'.proc = p /\ resp'.kind = k

\* C22: ownership. GetTask returns a task only to the user whose id is its
\* user_id, GetTasks returns exactly the caller's own live tasks that match
\* the filter; a row is changed or deleted only by a request of its owner and
\* keeps its user_id; a new row belongs to the caller; and a request for the
\* task of another user is answered 404 "Task not found" and changes nothing.
C22_Ownership ==
  [][ /\ \A p \in Procs :
           /\ (TaskAnswered(p, "GetTask") /\ resp'.status = 200)
                => /\ resp'.task = tasks[resp'.taskID]
                   /\ resp'.task.UserID = CallerOf(p)
           /\ (TaskAnswered(p, "GetTasks") /\ resp'.status = 200)
                => /\ \A t \in resp'.list : t.UserID = CallerOf(p)
                   /\ \A i \in DOMAIN tasks :
                        (tasks[i] \in resp'.list)
                          => tasks[i].UserID = CallerOf(p)
           /\ (/\ pc[p] = "handler"
               /\ resp'.proc = p
               /\ resp'.kind \in {"GetTask", "UpdateTask", "UpdateTaskStatus",
                                  "DeleteTask"}
               /\ resp'.status # 400
               /\ resp'.dbOK
               /\ resp'.taskID \in DOMAIN tasks
               /\ tasks[resp'.taskID].UserID # CallerOf(p))
                => /\ resp'.status = 404
                   /\ resp'.error = <<"Task not found">>
                   /\ tasks' = tasks
      /\ \A t \in DOMAIN tasks' :
           IF t \in DOMAIN tasks
           THEN tasks'[t] # tasks[t]
                  => /\ tasks'[t].UserID = tasks[t].UserID
                     /\ \E p \in Procs :
                          /\ pc[p] \in {"upd_save", "status_save", "delete_row"}
                          /\ pc'[p] = "idle"
                          /\ frame[p].taskID = t
                          /\ CallerOf(p) = tasks[t].UserID
           ELSE \E p \in Procs :
                  /\ TaskAnswered(p, "CreateTask")
                  /\ tasks'[t].UserID = CallerOf(p)
    ]_vars

\* a user has asked for the live task of another user and got 404
C22_Witness ==
  /\ resp.kind \in {"GetTask", "UpdateTask", "UpdateTaskStatus", "DeleteTask"}
  /\ resp.status = 404
  /\ resp.taskID \in DOMAIN tasks
  /\ ~tasks[resp.taskID].Deleted
  /\ tasks[resp.taskID].UserID # resp.caller
  /\ resp.caller \in Users

\* C30: the Save of UpdateTask leaves the stored status as it is, the Save of
\* UpdateTaskStatus leaves the stored title and priority as they are, so that
\* of two interleaved requests on one task both changes are kept.
C30_NoLostUpdate ==
  [][ \A p \in Procs : \A t \in DOMAIN tasks :
        /\ (pc[p] = "upd_save" /\ resp'.proc = p /\ frame[p].taskID = t)
             => tasks'[t].Status = tasks[t].Status
        /\ (pc[p] = "status_save" /\ resp'.proc = p /\ frame[p].taskID = t)
             => /\ tasks'[t].Title = tasks[t].Title
                /\ tasks'[t].Priority = tasks[t].Priority
    ]_vars
====
